---- MODULE Spec2Model ----
(***************************************************************************)
(* A model of dqlite_rs.  The node registry (src/protocol/store.rs):       *)
(* NodeInfo validation, the NodeStoreBackend (node map, address index and  *)
(* version counter) and its operations, as whole calls made by one caller  *)
(* (Spec), as lock-granular steps of concurrent writers (SpecConc) and of  *)
(* readers beside writers (SpecRw); the file-backed store and its save     *)
(* (SpecYaml, SpecYamlConc); the decoding of node roles (SpecRole); Node   *)
(* and the connect callback of src/bindings/server.rs (SpecServer); dial   *)
(* of src/protocol/connector.rs (SpecDial); the Config builder of          *)
(* src/protocol/config.rs (SpecConfig); longer sequences of mutations of   *)
(* the backend (SpecIndex); the handle tables of server.rs at lock         *)
(* granularity (SpecRegistry); and Connector::connect, whose body is not   *)
(* among the sources and follows spec.md 4.2 (SpecConnector,               *)
(* SpecConnectorFair).                                                     *)
(* The source writes `node.address` where the field is `addr`; the model   *)
(* reads both as the one address field of NodeInfo.                        *)
(***************************************************************************)
EXTENDS Integers, Sequences, FiniteSets, TLC

(***************************************************************************)
(* Bounds of the model.                                                    *)
(***************************************************************************)
\* node ids are 1..MaxId
MaxId == 2
\* node lists given to set_all / set_if_version have at most MaxLen entries
MaxLen == 2
\* calls are issued while version < MaxVersion (the u64 counter never wraps)
MaxVersion == 2

NodeIds == 1..MaxId

(***************************************************************************)
(* NodeRole (store.rs 16-31).                                              *)
(***************************************************************************)
VOTER == 0
STAND_BY == 1
SPARE == 2

Roles == {VOTER, STAND_BY, SPARE}

(***************************************************************************)
(* Address strings.  TLC strings support Len and SubSeq, so an address is  *)
(* the string itself and validation looks at its characters.               *)
(***************************************************************************)
CharAt(s, i) == SubSeq(s, i, i)

starts_with(s, p) == Len(s) >= Len(p) /\ SubSeq(s, 1, Len(p)) = p

IsDigit(c) == c \in {"0", "1", "2", "3", "4", "5", "6", "7", "8", "9"}

DigitVal(c) ==
    CASE c = "0" -> 0 [] c = "1" -> 1 [] c = "2" -> 2 [] c = "3" -> 3
      [] c = "4" -> 4 [] c = "5" -> 5 [] c = "6" -> 6 [] c = "7" -> 7
      [] c = "8" -> 8 [] c = "9" -> 9

\* index of the first character at or after i that is not a digit
RECURSIVE ScanDigits(_, _)
ScanDigits(s, i) ==
    IF i <= Len(s) /\ IsDigit(CharAt(s, i)) THEN ScanDigits(s, i + 1) ELSE i

\* value of the decimal digits s[i..j-1]
RECURSIVE NumVal(_, _, _)
NumVal(s, i, j) ==
    IF j <= i THEN 0 ELSE 10 * NumVal(s, i, j - 1) + DigitVal(CharAt(s, j - 1))

\* One IPv4 octet starting at i, as std's parser reads it: 1 to 3 digits, no
\* leading zero on a multi-digit group, value at most 255.  The index after
\* the octet, or 0 when there is no octet at i.
ReadOctet(s, i) ==
    LET j == ScanDigits(s, i)
        n == j - i
    IN  IF /\ n >= 1
           /\ n <= 3
           /\ (n > 1 => CharAt(s, i) # "0")
           /\ NumVal(s, i, j) <= 255
        THEN j ELSE 0

\* a given character at i: the index after it, or 0
ReadChar(s, i, c) ==
    IF i >= 1 /\ i <= Len(s) /\ CharAt(s, i) = c THEN i + 1 ELSE 0

\* a u16 port at i running to the end of the string (leading zeros allowed)
ReadPortToEnd(s, i) ==
    /\ i >= 1
    /\ i <= Len(s)
    /\ ScanDigits(s, i) = Len(s) + 1
    /\ NumVal(s, i, Len(s) + 1) <= 65535

\* str::parse::<SocketAddr>() for the a.b.c.d:port form.  The bracketed IPv6
\* form is not modelled: no address of the pools starts with "[".
ParsesAsSocketAddr(s) ==
    LET a == ReadOctet(s, 1)
        b == IF a = 0 THEN 0 ELSE ReadOctet(s, ReadChar(s, a, "."))
        c == IF b = 0 THEN 0 ELSE ReadOctet(s, ReadChar(s, b, "."))
        d == IF c = 0 THEN 0 ELSE ReadOctet(s, ReadChar(s, c, "."))
    IN  d # 0 /\ ReadPortToEnd(s, ReadChar(s, d, ":"))

(***************************************************************************)
(* NodeInfo and its validation (store.rs 64-123).                          *)
(***************************************************************************)
NodeInfo(i, a, r) == [id |-> i, addr |-> a, role |-> r]

\* validate without the final rejection: every non-empty address passes
validate_nonempty_only(node) ==
    IF node.addr = "" THEN "InvalidNode" ELSE "Ok"

\* NodeInfo::validate
validate(node) ==
    IF node.addr = "" THEN "InvalidNode"
    ELSE IF ParsesAsSocketAddr(node.addr) THEN "Ok"
    ELSE IF starts_with(node.addr, "@") THEN "Ok"
    ELSE IF starts_with(node.addr, "/") THEN "Ok"
    ELSE IF starts_with(node.addr, "unix:") THEN "Ok"
    ELSE "InvalidNode"

\* validate_nodes without the seen_addresses check
RECURSIVE validate_from_ids_only(_, _, _, _)
validate_from_ids_only(ns, k, seen_ids, seen_addresses) ==
    IF k > Len(ns) THEN "Ok"
    ELSE IF validate(ns[k]) # "Ok" THEN "InvalidNode"
    ELSE IF ns[k].id \in seen_ids THEN "InvalidNode"
    ELSE validate_from_ids_only(ns, k + 1, seen_ids \cup {ns[k].id}, seen_addresses)

\* the loop of validate_nodes from entry k on, with the ids and addresses
\* seen so far
RECURSIVE validate_from(_, _, _, _)
validate_from(ns, k, seen_ids, seen_addresses) ==
    IF k > Len(ns) THEN "Ok"
    ELSE IF validate(ns[k]) # "Ok" THEN "InvalidNode"
    ELSE IF ns[k].id \in seen_ids THEN "InvalidNode"
    ELSE IF ns[k].addr \in seen_addresses THEN "InvalidNode"
    ELSE validate_from(ns, k + 1, seen_ids \cup {ns[k].id},
                       seen_addresses \cup {ns[k].addr})

validate_nodes(ns) == validate_from(ns, 1, {}, {})

(***************************************************************************)
(* HashMap operations on functions with a finite domain.                   *)
(***************************************************************************)
EmptyMap == <<>>

map_insert(m, k, v) == [x \in (DOMAIN m) \cup {k} |-> IF x = k THEN v ELSE m[x]]

map_remove(m, k) == [x \in (DOMAIN m) \ {k} |-> m[x]]

Some(x) == {x}
None == {}

map_get(m, k) == IF k \in DOMAIN m THEN Some(m[k]) ELSE None

(***************************************************************************)
(* NodeStoreBackend (store.rs 175-291).  A store value s is the record of  *)
(* the three fields; each operation maps a store value and its arguments   *)
(* to the store value afterwards and the value returned.                   *)
(***************************************************************************)
StoreOf(n, a, v) == [nodes |-> n, addresses |-> a, version |-> v]

\* NodeStoreBackend::new
new == StoreOf(EmptyMap, EmptyMap, 0)

\* get_all: the records, in no particular order
get_all(s) == {s.nodes[i] : i \in DOMAIN s.nodes}

get_by_id(s, id) == map_get(s.nodes, id)

get_by_address(s, address) ==
    IF address \in DOMAIN s.addresses
    THEN map_get(s.nodes, s.addresses[address])
    ELSE None

version_of(s) == s.version

\* the insert loop of set_all, from entry k on
RECURSIVE insert_from(_, _, _)
insert_from(s, ns, k) ==
    IF k > Len(ns) THEN s
    ELSE insert_from([s EXCEPT !.nodes = map_insert(@, ns[k].id, ns[k]),
                               !.addresses = map_insert(@, ns[k].addr, ns[k].id)],
                     ns, k + 1)

\* set_all_locked without store.clear() / addrs.clear()
set_all_locked_no_clear(s, ns) ==
    [insert_from(s, ns, 1) EXCEPT !.version = @ + 1]

\* set_all once the three write locks are held (lines 235-243)
set_all_locked(s, ns) ==
    LET cleared == [s EXCEPT !.nodes = EmptyMap, !.addresses = EmptyMap]
        filled == insert_from(cleared, ns, 1)
    IN  [filled EXCEPT !.version = @ + 1]

set_all(s, ns) ==
    IF validate_nodes(ns) # "Ok"
    THEN [store |-> s, res |-> "InvalidNode"]
    ELSE [store |-> set_all_locked(s, ns), res |-> "Ok"]

\* upsert_locked without addrs.remove(&old_node.address)
upsert_locked_keep_old_addr(s, node) ==
    [nodes |-> map_insert(s.nodes, node.id, node),
     addresses |-> map_insert(s.addresses, node.addr, node.id),
     version |-> s.version + 1]

\* upsert once the three write locks are held (lines 254-260)
upsert_locked(s, node) ==
    LET addrs == IF node.id \in DOMAIN s.nodes
                 THEN map_remove(s.addresses, s.nodes[node.id].addr)
                 ELSE s.addresses
    IN  [nodes |-> map_insert(s.nodes, node.id, node),
         addresses |-> map_insert(addrs, node.addr, node.id),
         version |-> s.version + 1]

upsert(s, node) ==
    IF validate(node) # "Ok"
    THEN [store |-> s, res |-> "InvalidNode"]
    ELSE [store |-> upsert_locked(s, node), res |-> "Ok"]

\* remove with the version bumped outside the if-let
remove_always_bumps(s, id) ==
    IF id \in DOMAIN s.nodes
    THEN [store |-> [nodes |-> map_remove(s.nodes, id),
                     addresses |-> map_remove(s.addresses, s.nodes[id].addr),
                     version |-> s.version + 1],
          res |-> TRUE]
    ELSE [store |-> [s EXCEPT !.version = @ + 1], res |-> FALSE]

\* remove with store.get(&id) in place of store.remove(&id)
remove_get_only(s, id) ==
    IF id \in DOMAIN s.nodes
    THEN [store |-> [nodes |-> s.nodes,
                     addresses |-> map_remove(s.addresses, s.nodes[id].addr),
                     version |-> s.version + 1],
          res |-> TRUE]
    ELSE [store |-> s, res |-> FALSE]

remove(s, id) ==
    IF id \in DOMAIN s.nodes
    THEN [store |-> [nodes |-> map_remove(s.nodes, id),
                     addresses |-> map_remove(s.addresses, s.nodes[id].addr),
                     version |-> s.version + 1],
          res |-> TRUE]
    ELSE [store |-> s, res |-> FALSE]

\* set_if_version without the version comparison
set_if_version_unchecked(s, ns, expected_version) == set_all(s, ns)

\* set_if_version by one caller: nothing runs between the version read and
\* set_all
set_if_version(s, ns, expected_version) ==
    IF version_of(s) # expected_version
    THEN [store |-> s, res |-> "VersionConflict"]
    ELSE set_all(s, ns)

(***************************************************************************)
(* Inputs.                                                                 *)
(***************************************************************************)
\* one address of every form validate tells apart, the empty address and
\* strings that are none of the forms
AddrPool ==
    {"", "not-an-address", "127.0.0.1:9001", "/tmp/x.sock", "@abs",
     "unix:/tmp/x.sock"}

\* nodes given to upsert
UpsertNodes == {NodeInfo(i, a, VOTER) : i \in NodeIds, a \in AddrPool}

\* nodes of the lists given to set_all and set_if_version
ListAddrs == {"127.0.0.1:9001", "/tmp/x.sock", "not-an-address"}

ListNodes == {NodeInfo(i, a, STAND_BY) : i \in NodeIds, a \in ListAddrs}

NodeLists == UNION {[1..n -> ListNodes] : n \in 0..MaxLen}

Versions == 0..MaxVersion

(***************************************************************************)
(* State.  nodes, addresses and version are the fields of the backend.     *)
(* call is the call the single caller made last and has not yet consumed:  *)
(* the operation, its argument, the value returned and the store before    *)
(* it.  pc, req, result and wlock belong to the concurrent callers: each   *)
(* thread's position in its call, the call it is making, what its last     *)
(* call returned, and the thread holding each field's write lock (0: none).*)
(***************************************************************************)
VARIABLES nodes, addresses, version, call, pc, req, result, wlock

\* Readers and the steps of a write (store.rs 208-277): the threads holding
\* each field's read lock, the store the writer under the three write locks
\* is installing, the store after the last whole mutation, the stores a
\* read in progress may answer for, and what each mutation returns when the
\* mutations are applied one after another in the order they completed.
VARIABLES rlock, pending, committed, seen, lin

\* YamlNodeStore (store.rs 340-419): the files at the target and temporary
\* paths, the file each caller's open descriptor refers to, the text each
\* caller is writing, the store before each caller's call, the outcome of
\* constructing a second store on the path, and whether every call so far
\* returned success.
VARIABLES disk, fd, doc, pre, reopened, clean

\* Node and the connect callback (bindings/server.rs): the native handle,
\* the Node value, its cancellation token, the handles in the two
\* registries, and the connect_with_dial call in progress.
VARIABLES native, node, cancel_token, registry, conn

\* dial (connector.rs 152-162): the call in progress.
VARIABLES dialer

\* Config (config.rs): the value being built, what the setters were given,
\* and how many times with_defaults ran.
VARIABLES config, explicit, finished

\* NodeRole decoding (store.rs 21-26, 53-61, 464-469): the decode in progress.
VARIABLES decode

\* Connector (connector.rs 166-178): lt is the leader tracker's
\* last_known_leader_addr, when there is one; attempt is one connect() call
VARIABLES lt, attempt

\* the process-wide tables of server.rs 32-46 at lock granularity:
\* connect_reg is CONNECT_REGISTRY and context_reg CONTEXT_REGISTRY (handle to
\* the Node whose closure / token the entry holds), connect_index is
\* CONNECT_INDEX, mutex the holder of each table's Mutex, owners the Nodes,
\* setter the set_dial_func call of each thread and lookup the engine's
\* connect_with_dial call
VARIABLES owners, connect_reg, context_reg, connect_index, mutex, setter, lookup

storeVars == <<nodes, addresses, version>>
threadVars == <<pc, req, result, wlock>>
rwVars == <<rlock, pending, committed, seen, lin>>
yamlVars == <<disk, fd, doc, pre, reopened, clean>>
serverVars == <<native, node, cancel_token, registry, conn>>
dialVars == <<dialer>>
configVars == <<config, explicit, finished>>
roleVars == <<decode>>
connectorVars == <<lt, attempt>>
registryVars == <<owners, connect_reg, context_reg, connect_index, mutex, setter, lookup>>
vars == <<nodes, addresses, version, call, pc, req, result, wlock,
          rwVars, yamlVars, serverVars, dialVars, configVars, roleVars, connectorVars, registryVars>>

\* concurrent callers
NumThreads == 2

Threads == 1..NumThreads

Fields == {"nodes", "addresses", "version"}

Store == StoreOf(nodes, addresses, version)

Idle == [op |-> "idle", arg |-> <<>>, res |-> <<>>, pre |-> <<>>]

NoRequest == [op |-> "none", arg |-> <<>>]

\* no reader, no write in progress, nothing read or returned yet
RwInit ==
    /\ rlock = [f \in Fields |-> {}]
    /\ pending = None
    /\ committed = new
    /\ seen = [t \in Threads |-> {}]
    /\ lin = [t \in Threads |-> "none"]

\* no file at either path, no descriptor open, no second store constructed
YamlInit ==
    /\ disk = [target |-> None, temp |-> None]
    /\ fd = [t \in Threads |-> "none"]
    /\ doc = [t \in Threads |-> None]
    /\ pre = [t \in Threads |-> None]
    /\ reopened = None
    /\ clean = TRUE

\* first handle set_dial_func hands out (server.rs 46)
CONNECT_INDEX == 100

NoConnect ==
    [pc |-> "idle", handle |-> 0, late |-> FALSE, overtaken |-> FALSE,
     dialled |-> FALSE, fd_written |-> FALSE, rc |-> 0]

\* no Node constructed, no native call made, both registries empty
ServerInit ==
    /\ native = <<>>
    /\ node = "unborn"
    /\ cancel_token = FALSE
    /\ registry = [index |-> CONNECT_INDEX, handles |-> {}]
    /\ conn = NoConnect

NoDial ==
    [pc |-> "idle", addr |-> "", target |-> "", connects |-> <<>>, res |-> "none"]

DialInit == dialer = NoDial

\* the options of Config that with_defaults fills
Options ==
    {"dial", "dial_timeout", "attempt_timeout", "backoff_factor", "backoff_cap",
     "retry_limit", "concurrent_leader_conns"}

\* Config::new (config.rs 17-19): Default of every field: no dial function,
\* zero durations (in milliseconds), no retry limit, zero connections, false
Config_new ==
    [dial |-> None, dial_timeout |-> 0, attempt_timeout |-> 0,
     backoff_factor |-> 0, backoff_cap |-> 0, retry_limit |-> None,
     concurrent_leader_conns |-> 0, permit_shared |-> FALSE]

ConfigInit ==
    /\ config = Config_new
    /\ explicit = [o \in Options |-> None]
    /\ finished = 0

NoDecode == [pc |-> "idle", via |-> "none", input |-> 0, res |-> None]

RoleInit == decode = NoDecode

NoAttempt ==
    [pc |-> "idle", dial_fails |-> 0, retry_limit |-> None, backoff_cap |-> 0,
     backoff |-> 0, candidates |-> <<>>, i |-> 1, pass |-> 0, log |-> <<>>,
     waits |-> <<>>, errors |-> <<>>, cancel |-> FALSE, res |-> "none"]

ConnectorInit ==
    /\ lt = None
    /\ attempt = NoAttempt

\* the Nodes of the process and the threads that call set_dial_func
RegNodes == {1, 2}

Setters == {t \in Threads : t <= 2}

Mutexes == {"CONNECT_REGISTRY", "CONTEXT_REGISTRY"}

\* the engine thread, as a holder of a Mutex
Engine == 0

NoSetter == [pc |-> "idle", node |-> 0, handle |-> 0, res |-> "none"]

NoLookup ==
    [pc |-> "idle", handle |-> 0, dial_fn |-> None, token |-> None, rc |-> 0]

\* no Node constructed, both tables empty, the counter at its first handle
RegistryInit ==
    /\ owners = [n \in RegNodes |-> "unborn"]
    /\ connect_reg = EmptyMap
    /\ context_reg = EmptyMap
    /\ connect_index = CONNECT_INDEX
    /\ mutex = [m \in Mutexes |-> None]
    /\ setter = [t \in Setters |-> NoSetter]
    /\ lookup = NoLookup

StoreInit ==
    /\ nodes = new.nodes
    /\ addresses = new.addresses
    /\ version = new.version
    /\ call = Idle
    /\ pc = [t \in Threads |-> "idle"]
    /\ req = [t \in Threads |-> NoRequest]
    /\ result = [t \in Threads |-> "none"]
    /\ wlock = [f \in Fields |-> 0]

Init ==
    /\ StoreInit
    /\ RwInit
    /\ YamlInit
    /\ ServerInit
    /\ DialInit
    /\ ConfigInit
    /\ RoleInit
    /\ ConnectorInit
    /\ RegistryInit

\* the parts of the state an action of the registry leaves alone
restVars == <<yamlVars, serverVars, dialVars, configVars, roleVars, connectorVars, registryVars>>
extVars == <<rwVars, restVars>>

(***************************************************************************)
(* One caller: every call runs from start to return with nothing between.  *)
(***************************************************************************)
CanCall == call.op = "idle" /\ version < MaxVersion

\* a mutating call: r is the operation's outcome on the current store
Mutate(op, arg, r) ==
    /\ nodes' = r.store.nodes
    /\ addresses' = r.store.addresses
    /\ version' = r.store.version
    /\ call' = [op |-> op, arg |-> arg, res |-> r.res, pre |-> Store]
    /\ UNCHANGED <<threadVars, extVars>>

\* a read
Read(op, arg, res) ==
    /\ call' = [op |-> op, arg |-> arg, res |-> res, pre |-> Store]
    /\ UNCHANGED <<storeVars, threadVars, extVars>>

CallSetAll ==
    /\ CanCall
    /\ \E ns \in NodeLists : Mutate("set_all", ns, set_all(Store, ns))

CallUpsert ==
    /\ CanCall
    /\ \E n \in UpsertNodes : Mutate("upsert", n, upsert(Store, n))

CallRemove ==
    /\ CanCall
    /\ \E id \in NodeIds : Mutate("remove", id, remove(Store, id))

CallSetIfVersion ==
    /\ CanCall
    /\ \E ns \in NodeLists, v \in Versions :
          Mutate("set_if_version", [nodes |-> ns, expected |-> v],
                 set_if_version(Store, ns, v))

CallGetAll ==
    /\ CanCall
    /\ Read("get_all", <<>>, get_all(Store))

CallGetById ==
    /\ CanCall
    /\ \E id \in NodeIds : Read("get_by_id", id, get_by_id(Store, id))

CallGetByAddress ==
    /\ CanCall
    /\ \E a \in AddrPool : Read("get_by_address", a, get_by_address(Store, a))

CallVersion ==
    /\ CanCall
    /\ Read("version", <<>>, version_of(Store))

\* the caller takes the returned value; the next call may start
Return ==
    /\ call.op # "idle"
    /\ call' = Idle
    /\ UNCHANGED <<storeVars, threadVars, extVars>>

Next ==
    \/ CallSetAll
    \/ CallUpsert
    \/ CallRemove
    \/ CallSetIfVersion
    \/ CallGetAll
    \/ CallGetById
    \/ CallGetByAddress
    \/ CallVersion
    \/ Return

Spec == Init /\ [][Next]_vars

(***************************************************************************)
(* Concurrent callers.  A mutating call takes the write locks of nodes,    *)
(* addresses and version in that order (store.rs 231-233, 250-252,         *)
(* 266-268), changes the maps and the counter, and drops the three guards  *)
(* when it returns.  set_if_version first calls version(), which takes     *)
(* and drops the read lock of version, and only then calls set_all.        *)
(***************************************************************************)
\* lists and nodes the concurrent callers pass
ConcLists == {ns \in NodeLists : Len(ns) <= 1}

ConcNodes == {n \in ListNodes : n.id = 1}

ConcRequests ==
    {[op |-> "set_all", arg |-> ns] : ns \in ConcLists}
        \cup {[op |-> "set_if_version", arg |-> [nodes |-> ns, expected |-> v]] :
                 ns \in ConcLists, v \in Versions}
        \cup {[op |-> "upsert", arg |-> n] : n \in ConcNodes}
        \cup {[op |-> "remove", arg |-> id] : id \in {1}}

FirstStep(op) ==
    CASE op = "set_if_version" -> "siv_version"
      [] op = "set_all" -> "validate"
      [] op = "upsert" -> "validate"
      [] op = "remove" -> "lock_nodes"

\* the list the set_all inside the call is given
ListOf(r) == IF r.op = "set_if_version" THEN r.arg.nodes ELSE r.arg

Begin(t) ==
    /\ pc[t] = "idle"
    /\ version < MaxVersion
    /\ \E r \in ConcRequests :
          /\ req' = [req EXCEPT ![t] = r]
          /\ pc' = [pc EXCEPT ![t] = FirstStep(r.op)]
    /\ result' = [result EXCEPT ![t] = "pending"]
    /\ UNCHANGED <<storeVars, call, wlock, extVars>>

\* set_if_version lines 285-288: self.version() and the comparison
SivVersion(t) ==
    /\ pc[t] = "siv_version"
    /\ wlock["version"] = 0
    /\ IF version_of(Store) # req[t].arg.expected
       THEN /\ result' = [result EXCEPT ![t] = "VersionConflict"]
            /\ pc' = [pc EXCEPT ![t] = "idle"]
       ELSE /\ pc' = [pc EXCEPT ![t] = "validate"]
            /\ UNCHANGED result
    /\ UNCHANGED <<storeVars, call, req, wlock, extVars>>

\* validate_nodes(&nodes)? of set_all, node.validate()? of upsert
Validate(t) ==
    /\ pc[t] = "validate"
    /\ LET v == IF req[t].op = "upsert" THEN validate(req[t].arg)
                ELSE validate_nodes(ListOf(req[t]))
       IN  IF v # "Ok"
           THEN /\ result' = [result EXCEPT ![t] = "InvalidNode"]
                /\ pc' = [pc EXCEPT ![t] = "idle"]
           ELSE /\ pc' = [pc EXCEPT ![t] = "lock_nodes"]
                /\ UNCHANGED result
    /\ UNCHANGED <<storeVars, call, req, wlock, extVars>>

\* a write lock that ignores the readers holding the lock
held_shared_ignored(field) == FALSE

\* RwLock: some reader holds the field's lock (read guards not yet dropped)
held_shared(field) == rlock[field] # {}

\* RwLock::write returns once no writer and no reader holds the lock
can_write(field) == wlock[field] = 0 /\ ~held_shared(field)

\* RwLock::read returns once no writer holds the lock
can_read(field) == wlock[field] = 0

\* self.<field>.write().unwrap(), entered once the lock is free
Lock(t, at, field, then) ==
    /\ pc[t] = at
    /\ can_write(field)
    /\ wlock' = [wlock EXCEPT ![field] = t]
    /\ pc' = [pc EXCEPT ![t] = then]
    /\ UNCHANGED <<storeVars, call, req, result, extVars>>

LockNodes(t) == Lock(t, "lock_nodes", "nodes", "lock_addresses")

LockAddresses(t) == Lock(t, "lock_addresses", "addresses", "lock_version")

LockVersion(t) == Lock(t, "lock_version", "version", "apply")

\* the body run under the three locks, and the return that drops them
Apply(t) ==
    /\ pc[t] = "apply"
    /\ LET r == CASE req[t].op = "upsert" ->
                        [store |-> upsert_locked(Store, req[t].arg), res |-> "Ok"]
                  [] req[t].op = "remove" -> remove(Store, req[t].arg)
                  [] OTHER ->
                        [store |-> set_all_locked(Store, ListOf(req[t])), res |-> "Ok"]
       IN  /\ nodes' = r.store.nodes
           /\ addresses' = r.store.addresses
           /\ version' = r.store.version
           /\ result' = [result EXCEPT ![t] = r.res]
    /\ wlock' = [f \in Fields |-> 0]
    /\ pc' = [pc EXCEPT ![t] = "idle"]
    /\ UNCHANGED <<call, req, extVars>>

NextConc ==
    \E t \in Threads :
        \/ Begin(t)
        \/ SivVersion(t)
        \/ Validate(t)
        \/ LockNodes(t)
        \/ LockAddresses(t)
        \/ LockVersion(t)
        \/ Apply(t)

SpecConc == Init /\ [][NextConc]_vars

(***************************************************************************)
(* Properties.  The predicates below are written from the statements, not  *)
(* from the operations: what a well-formed address and a list without      *)
(* duplicates are, and which calls count as successful mutations.          *)
(***************************************************************************)
AcceptedForm(a) ==
    /\ a # ""
    /\ \/ ParsesAsSocketAddr(a)
       \/ starts_with(a, "/")
       \/ starts_with(a, "@")
       \/ starts_with(a, "unix:")

AllAccepted(ns) == \A k \in 1..Len(ns) : AcceptedForm(ns[k].addr)

HasDuplicate(ns) ==
    \E j, k \in 1..Len(ns) :
        j # k /\ (ns[j].id = ns[k].id \/ ns[j].addr = ns[k].addr)

ValidList(ns) == AllAccepted(ns) /\ ~HasDuplicate(ns)

RecordsOf(ns) == {ns[k] : k \in 1..Len(ns)}

Called(op) == call.op = op

Unchanged == Store = call.pre

SuccessfulMutation(c) ==
    \/ c.op \in {"set_all", "upsert", "set_if_version"} /\ c.res = "Ok"
    \/ c.op = "remove" /\ c.res = TRUE

\* C1: in every reachable state the stored records have pairwise distinct ids
\* and pairwise distinct addresses.
C1_DistinctIdsAndAddresses ==
    \A n, m \in get_all(Store) : n # m => n.id # m.id /\ n.addr # m.addr

\* C2: upsert of a node whose address belongs to a stored record with another
\* id fails and leaves records, address lookups and version as they were.
C2_UpsertRejectsTakenAddress ==
    (/\ Called("upsert")
     /\ \E n \in get_all(call.pre) : n.addr = call.arg.addr /\ n.id # call.arg.id)
        => call.res # "Ok" /\ Unchanged

\* C3: set_all of a list with well-formed addresses and pairwise distinct ids
\* and addresses succeeds from any store, get_all is then exactly the list's
\* records, and version is the prior version plus 1.
C3_SetAllReplaces ==
    (Called("set_all") /\ ValidList(call.arg))
        => /\ call.res = "Ok"
           /\ get_all(Store) = RecordsOf(call.arg)
           /\ version_of(Store) = version_of(call.pre) + 1

C3_Witness ==
    /\ Called("set_all")
    /\ ValidList(call.arg)
    /\ Len(call.arg) = 2
    /\ get_all(call.pre) # {}
    /\ get_all(call.pre) \cap RecordsOf(call.arg) = {}

\* C4: set_all of a list holding two records with the same id or the same
\* address fails with InvalidNode and changes nothing.
C4_SetAllRejectsDuplicates ==
    (Called("set_all") /\ HasDuplicate(call.arg))
        => call.res = "InvalidNode" /\ Unchanged

C4_Witness ==
    /\ Called("set_all")
    /\ AllAccepted(call.arg)
    /\ Len(call.arg) = 2
    /\ call.arg[1].id # call.arg[2].id
    /\ call.arg[1].addr = call.arg[2].addr
    /\ get_all(call.pre) # {}
    /\ call.res = "InvalidNode"

\* C5: every step changes version by exactly 1 when it is a successful
\* mutating call, and leaves it alone when it is a failed call, a remove of
\* an absent id, a read, or the return of a call; version never decreases.
C5_VersionCounts ==
    [][version' = version + (IF SuccessfulMutation(call') THEN 1 ELSE 0)]_vars

C5_Witness ==
    /\ Called("remove")
    /\ call.res = TRUE
    /\ version_of(call.pre) = 1
    /\ version = 2

\* C6: for one caller and a valid list, set_if_version succeeds exactly when
\* the expected version is the current one; then it does what set_all does,
\* and otherwise it fails with VersionConflict and changes nothing.
C6_SetIfVersion ==
    (Called("set_if_version") /\ ValidList(call.arg.nodes))
        => IF call.arg.expected = version_of(call.pre)
           THEN /\ call.res = "Ok"
                /\ get_all(Store) = RecordsOf(call.arg.nodes)
                /\ Store = set_all(call.pre, call.arg.nodes).store
                /\ version_of(Store) = version_of(call.pre) + 1
           ELSE /\ call.res = "VersionConflict"
                /\ Unchanged

C6_Witness ==
    /\ Called("set_if_version")
    /\ ValidList(call.arg.nodes)
    /\ call.arg.nodes # <<>>
    /\ call.arg.expected = 1
    /\ version_of(call.pre) = 1
    /\ call.res = "Ok"

\* C7: under concurrent callers set_if_version replaces the contents only if
\* the version equals the expected one at the moment of the replacement, and
\* of two set_if_version calls with the same expected version at most one
\* succeeds.
C7_SetIfVersionAtReplacement ==
    /\ \A t \in Threads :
          (req[t].op = "set_if_version" /\ pc[t] = "apply")
              => version = req[t].arg.expected
    /\ \A t, u \in Threads :
          (/\ t # u
           /\ req[t].op = "set_if_version"
           /\ req[u].op = "set_if_version"
           /\ req[t].arg.expected = req[u].arg.expected
           /\ pc[t] = "idle"
           /\ pc[u] = "idle")
              => ~(result[t] = "Ok" /\ result[u] = "Ok")

\* C8: after a successful upsert of a node whose id is stored with another
\* address, the old address finds nothing, the new address and the id find
\* the new record, and every other record is as before.
C8_UpsertMovesAddress ==
    (/\ Called("upsert")
     /\ call.res = "Ok"
     /\ get_by_id(call.pre, call.arg.id) # None
     /\ \A old \in get_by_id(call.pre, call.arg.id) : old.addr # call.arg.addr)
        => /\ \A old \in get_by_id(call.pre, call.arg.id) :
                 get_by_address(Store, old.addr) = None
           /\ get_by_address(Store, call.arg.addr) = Some(call.arg)
           /\ get_by_id(Store, call.arg.id) = Some(call.arg)
           /\ \A id \in NodeIds \ {call.arg.id} :
                 get_by_id(Store, id) = get_by_id(call.pre, id)

C8_Witness ==
    /\ Called("upsert")
    /\ call.res = "Ok"
    /\ Cardinality(get_all(call.pre)) = 2
    /\ \E old \in get_by_id(call.pre, call.arg.id) :
          /\ old.addr # call.arg.addr
          /\ get_by_address(call.pre, old.addr) = Some(old)
    /\ get_by_address(call.pre, call.arg.addr) = None

\* C9: remove returns true exactly when the id was stored; then the id and
\* the removed record's address find nothing and the other records are as
\* before; when it returns false nothing has changed.
C9_Remove ==
    Called("remove")
        => /\ call.res = (get_by_id(call.pre, call.arg) # None)
           /\ call.res = TRUE =>
                 /\ get_by_id(Store, call.arg) = None
                 /\ \A old \in get_by_id(call.pre, call.arg) :
                       get_by_address(Store, old.addr) = None
                 /\ \A id \in NodeIds \ {call.arg} :
                       get_by_id(Store, id) = get_by_id(call.pre, id)
           /\ call.res = FALSE => Unchanged

C9_Witness ==
    /\ Called("remove")
    /\ call.res = TRUE
    /\ Cardinality(get_all(call.pre)) = 2
    /\ \E old \in get_by_id(call.pre, call.arg) :
          get_by_address(call.pre, old.addr) = Some(old)

\* the nodes a mutating call was given
GivenNodes ==
    CASE Called("upsert") -> <<call.arg>>
      [] Called("set_all") -> call.arg
      [] Called("set_if_version") -> call.arg.nodes
      [] OTHER -> <<>>

\* C10 as stated: set_all, upsert and set_if_version given a node whose
\* address is empty or of no accepted form fail with InvalidNode and change
\* nothing; nodes with accepted addresses are never rejected for the address.
C10_BadAddressIsInvalidNode ==
    /\ ~AllAccepted(GivenNodes) => call.res = "InvalidNode" /\ Unchanged
    /\ (AllAccepted(GivenNodes) /\ GivenNodes # <<>> /\ call.res = "InvalidNode")
          => HasDuplicate(GivenNodes)

\* C10 amended: set_all and upsert given a node whose address is empty or of
\* no accepted form fail with InvalidNode; set_if_version given such a node
\* fails with InvalidNode when the expected version is the current one and
\* with VersionConflict otherwise; the store is unchanged in every case; and
\* nodes with accepted addresses are never rejected for the address.
C10_BadAddressRejected ==
    /\ ~AllAccepted(GivenNodes) =>
          /\ Unchanged
          /\ call.res = IF /\ Called("set_if_version")
                           /\ call.arg.expected # version_of(call.pre)
                        THEN "VersionConflict" ELSE "InvalidNode"
    /\ (AllAccepted(GivenNodes) /\ GivenNodes # <<>> /\ call.res = "InvalidNode")
          => HasDuplicate(GivenNodes)

C10_Witness ==
    /\ Called("set_if_version")
    /\ ~AllAccepted(call.arg.nodes)
    /\ call.arg.expected = version_of(call.pre)
    /\ get_all(call.pre) # {}
    /\ call.res = "InvalidNode"

(***************************************************************************)
(* Readers beside writers (store.rs 208-277).  A read takes the read lock  *)
(* of the map it looks at; get_by_address takes the read lock of addresses *)
(* and, still holding it, the read lock of nodes.  A writer that holds the *)
(* three write locks changes nodes, then addresses, then version, so the   *)
(* three fields pass through states that belong to no whole mutation.      *)
(***************************************************************************)
Unwrap(o) == CHOOSE x \in o : TRUE

RwNodes ==
    {NodeInfo(1, "127.0.0.1:9001", VOTER), NodeInfo(1, "/tmp/x.sock", VOTER),
     NodeInfo(2, "127.0.0.1:9001", SPARE)}

RwLists == {<<>>, <<NodeInfo(2, "/tmp/x.sock", STAND_BY)>>}

WriteOps == {"upsert", "set_all", "remove"}

ReadOps == {"get_all", "get_by_id", "get_by_address"}

RwWrites ==
    {[op |-> "upsert", arg |-> n] : n \in RwNodes}
        \cup {[op |-> "set_all", arg |-> ns] : ns \in RwLists}
        \cup {[op |-> "remove", arg |-> id] : id \in {1}}

RwReads ==
    {[op |-> "get_all", arg |-> <<>>]}
        \cup {[op |-> "get_by_id", arg |-> id] : id \in {1}}
        \cup {[op |-> "get_by_address", arg |-> a] : a \in {"127.0.0.1:9001"}}

\* what a read returns on store s
ReadOf(r, s) ==
    CASE r.op = "get_all" -> get_all(s)
      [] r.op = "get_by_id" -> get_by_id(s, r.arg)
      [] r.op = "get_by_address" -> get_by_address(s, r.arg)

\* what a mutation makes of store s when nothing runs beside it
WriteOf(r, s) ==
    CASE r.op = "upsert" -> upsert(s, r.arg)
      [] r.op = "set_all" -> set_all(s, r.arg)
      [] r.op = "remove" -> remove(s, r.arg)

\* the body of a validated mutation under the three write locks
Locked(r, s) ==
    CASE r.op = "upsert" -> [store |-> upsert_locked(s, r.arg), res |-> "Ok"]
      [] r.op = "set_all" -> [store |-> set_all_locked(s, r.arg), res |-> "Ok"]
      [] r.op = "remove" -> remove(s, r.arg)

RwFirstStep(op) ==
    CASE op \in {"upsert", "set_all"} -> "validate"
      [] op = "remove" -> "lock_nodes"
      [] op \in {"get_all", "get_by_id"} -> "rlock_nodes"
      [] op = "get_by_address" -> "rlock_addresses"

Reading(t) == pc[t] # "idle" /\ req[t].op \in ReadOps

RwBegin(t) ==
    /\ pc[t] = "idle"
    /\ version < MaxVersion
    /\ \E r \in RwWrites \cup RwReads :
          /\ req' = [req EXCEPT ![t] = r]
          /\ pc' = [pc EXCEPT ![t] = RwFirstStep(r.op)]
          /\ seen' = [seen EXCEPT ![t] = IF r.op \in ReadOps THEN {committed} ELSE {}]
    /\ result' = [result EXCEPT ![t] = "pending"]
    /\ lin' = [lin EXCEPT ![t] = None]
    /\ UNCHANGED <<storeVars, call, wlock, rlock, pending, committed, restVars>>

\* store.insert / store.remove / store.clear: the node map changes first
WriteNodes(t) ==
    /\ pc[t] = "apply"
    /\ LET r == Locked(req[t], Store)
       IN  /\ pending' = Some(r)
           /\ nodes' = r.store.nodes
    /\ pc' = [pc EXCEPT ![t] = "write_addresses"]
    /\ UNCHANGED <<addresses, version, call, req, result, wlock, rlock,
                   committed, seen, lin, restVars>>

\* addrs.remove / addrs.insert / addrs.clear
WriteAddresses(t) ==
    /\ pc[t] = "write_addresses"
    /\ addresses' = Unwrap(pending).store.addresses
    /\ pc' = [pc EXCEPT ![t] = "write_version"]
    /\ UNCHANGED <<nodes, version, call, req, result, wlock, rlock, pending,
                   committed, seen, lin, restVars>>

\* *version += 1 and the return, which drops the three guards
WriteVersion(t) ==
    /\ pc[t] = "write_version"
    /\ version' = Unwrap(pending).store.version
    /\ result' = [result EXCEPT ![t] = Unwrap(pending).res]
    /\ wlock' = [f \in Fields |-> 0]
    /\ pending' = None
    /\ pc' = [pc EXCEPT ![t] = "idle"]
    /\ LET w == WriteOf(req[t], committed)
       IN  /\ committed' = w.store
           /\ lin' = [lin EXCEPT ![t] = Some(w.res)]
           /\ seen' = [u \in Threads |->
                          IF Reading(u) THEN seen[u] \cup {w.store} ELSE seen[u]]
    /\ UNCHANGED <<nodes, addresses, call, req, rlock, restVars>>

\* self.<field>.read().unwrap(), entered while no writer holds the lock
RLock(t, at, field, then) ==
    /\ pc[t] = at
    /\ can_read(field)
    /\ rlock' = [rlock EXCEPT ![field] = @ \cup {t}]
    /\ pc' = [pc EXCEPT ![t] = then]
    /\ UNCHANGED <<storeVars, call, req, result, wlock, pending, committed,
                   seen, lin, restVars>>

RLockNodes(t) == RLock(t, "rlock_nodes", "nodes", "read_nodes")

RLockAddresses(t) == RLock(t, "rlock_addresses", "addresses", "read_addresses")

\* get_by_address line 221: the second read lock, addresses still held
RLockNodesHeld(t) == RLock(t, "rlock_nodes_held", "nodes", "read_nodes_held")

\* the read returns v: its guards are dropped
Returns(t, v) ==
    /\ result' = [result EXCEPT ![t] = v]
    /\ rlock' = [f \in Fields |-> rlock[f] \ {t}]
    /\ pc' = [pc EXCEPT ![t] = "idle"]
    /\ seen' = [seen EXCEPT ![t] = {s \in @ : ReadOf(req[t], s) = v}]
    /\ UNCHANGED <<storeVars, call, req, wlock, pending, committed, lin, restVars>>

\* get_all and get_by_id under the read lock of nodes
ReadNodes(t) ==
    /\ pc[t] = "read_nodes"
    /\ Returns(t, IF req[t].op = "get_all" THEN get_all(Store)
                  ELSE get_by_id(Store, req[t].arg))

\* get_by_address line 220: addresses.get(address)
ReadAddresses(t) ==
    /\ pc[t] = "read_addresses"
    /\ LET id == map_get(addresses, req[t].arg)
       IN  IF id = None
           THEN Returns(t, None)
           ELSE /\ result' = [result EXCEPT ![t] = id]
                /\ pc' = [pc EXCEPT ![t] = "rlock_nodes_held"]
                /\ UNCHANGED <<storeVars, call, req, wlock, rwVars, restVars>>

\* get_by_address line 222: nodes.get(&id)
ReadNodesHeld(t) ==
    /\ pc[t] = "read_nodes_held"
    /\ Returns(t, map_get(nodes, Unwrap(result[t])))

\* the callers of this specification: two of the threads
RwThreads == {t \in Threads : t <= 2}

NextRw ==
    \E t \in RwThreads :
        \/ RwBegin(t)
        \/ Validate(t)
        \/ LockNodes(t)
        \/ LockAddresses(t)
        \/ LockVersion(t)
        \/ WriteNodes(t)
        \/ WriteAddresses(t)
        \/ WriteVersion(t)
        \/ RLockNodes(t)
        \/ RLockAddresses(t)
        \/ RLockNodesHeld(t)
        \/ ReadNodes(t)
        \/ ReadAddresses(t)
        \/ ReadNodesHeld(t)

SpecRw == Init /\ [][NextRw]_vars

NoWriteLock == \A f \in Fields : wlock[f] = 0

\* C11: however the steps of concurrent upsert/set_all/remove calls and reads
\* interleave, the store outside a write equals the mutations applied one
\* after another in the order they completed, each mutation returns what it
\* returns in that order (so version counts the successful ones), and each
\* get_all, get_by_id and get_by_address returns what it returns on a store
\* between two whole mutations that existed while the read ran.
C11_Linearizable ==
    /\ NoWriteLock => Store = committed
    /\ \A t \in RwThreads :
          /\ (pc[t] = "idle" /\ req[t].op \in WriteOps) =>
                IF lin[t] = None
                THEN /\ result[t] = "InvalidNode"
                     /\ WriteOf(req[t], committed).res = "InvalidNode"
                ELSE result[t] = Unwrap(lin[t])
          /\ (pc[t] = "idle" /\ req[t].op \in ReadOps) => seen[t] # {}

\* an address lookup has returned a record while a writer is between its
\* change of nodes and its change of addresses
C11_Witness ==
    \E t, u \in RwThreads :
        /\ pc[t] = "idle"
        /\ req[t].op = "get_by_address"
        /\ result[t] # None
        /\ pc[u] = "write_addresses"
        /\ nodes # committed.nodes

(***************************************************************************)
(* NodeRole as serde writes and reads it (store.rs 21-61) and the text of  *)
(* a node list.  A role is the u8 it wraps; a serialized node is the       *)
(* mapping with the renamed keys ID, Address and Role; a document is the   *)
(* sequence of the mappings, in the order get_all happened to return.      *)
(***************************************************************************)
\* NodeRole::new: Ok(role) as Some(role), Err as None
NodeRole_new(v) == IF v \in {0, 1, 2} THEN Some(v) ELSE None

\* NodeRole::value
value(role) == role

\* a u8 read by truncating the integer to its low eight bits
u8_deserialize_wrapping(v) == Some(v % 256)

\* a u8 read from an integer of the input: integers outside u8 are an error
u8_deserialize(v) == IF v >= 0 /\ v <= 255 THEN Some(v) ELSE None

\* Deserialize for NodeRole
NodeRole_deserialize(v) ==
    IF u8_deserialize(v) = None THEN None
    ELSE NodeRole_new(Unwrap(u8_deserialize(v)))

serialize_node(n) == [ID |-> n.id, Address |-> n.addr, Role |-> value(n.role)]

deserialize_node(m) ==
    IF NodeRole_deserialize(m.Role) = None THEN None
    ELSE Some(NodeInfo(m.ID, m.Address, Unwrap(NodeRole_deserialize(m.Role))))

\* the elements of a set in some order, as HashMap::values yields them
SeqOf(S) ==
    CHOOSE f \in [1..Cardinality(S) -> S] : \A x \in S : \E k \in DOMAIN f : f[k] = x

\* serde_yaml::to_string(&nodes)
to_string(ns) == [k \in 1..Len(ns) |-> serialize_node(ns[k])]

\* serde_yaml::from_str::<Vec<NodeInfo>>: Some(list), or None on an error
from_str(text) ==
    IF \E k \in 1..Len(text) : deserialize_node(text[k]) = None THEN None
    ELSE Some([k \in 1..Len(text) |-> Unwrap(deserialize_node(text[k]))])

\* NodeStoreBackend::from_nodes
from_nodes(ns) ==
    IF validate_nodes(ns) # "Ok"
    THEN [store |-> new, res |-> "InvalidNode"]
    ELSE [store |-> insert_from(new, ns, 1), res |-> "Ok"]

(***************************************************************************)
(* Files.  A file is its two halves, each absent or the half of a text     *)
(* that some write_all put there; a path holds a file or nothing.          *)
(***************************************************************************)
EmptyFile == <<None, None>>

Complete(f) == f[1] # None /\ f[1] = f[2]

\* YamlNodeStore::new on the files of the path: the backend it builds, or
\* the error (the store field is then not meaningful).  A file that is not
\* the whole of one text does not parse.
YamlNodeStore_new(d) ==
    IF d.target = None THEN [store |-> new, res |-> "Ok"]
    ELSE IF ~Complete(Unwrap(d.target)) THEN [store |-> new, res |-> "Serialization"]
    ELSE IF from_str(Unwrap(Unwrap(d.target)[1])) = None
    THEN [store |-> new, res |-> "Serialization"]
    ELSE from_nodes(Unwrap(from_str(Unwrap(Unwrap(d.target)[1]))))

(***************************************************************************)
(* YamlNodeStore calls (store.rs 393-418) and save (362-376), one step per *)
(* statement that touches the backend or the file system.  Every file      *)
(* system step may fail; the call then returns the error.                  *)
(***************************************************************************)
YamlRequests ==
    {[op |-> "upsert", arg |-> n] :
        n \in {NodeInfo(1, "127.0.0.1:9001", VOTER),
               NodeInfo(2, "127.0.0.1:9001", SPARE),
               NodeInfo(2, "not-an-address", VOTER)}}
        \cup {[op |-> "set_all", arg |-> <<NodeInfo(1, "/tmp/x.sock", STAND_BY)>>]}
        \cup {[op |-> "remove", arg |-> 1]}
        \cup {[op |-> "set_if_version", arg |-> [nodes |-> <<>>, expected |-> 1]]}

\* self.backend.<op>(..): the store afterwards and the Result, as a string
backend_call(r, s) ==
    CASE r.op = "upsert" -> upsert(s, r.arg)
      [] r.op = "set_all" -> set_all(s, r.arg)
      [] r.op = "set_if_version" -> set_if_version(s, r.arg.nodes, r.arg.expected)
      [] r.op = "remove" ->
            [store |-> remove(s, r.arg).store,
             res |-> IF remove(s, r.arg).res THEN "Ok(true)" ELSE "Ok(false)"]

\* the value a call returns once save has succeeded
Saved(r) == IF r.op = "remove" THEN "Ok(true)" ELSE "Ok"

SaveErrors == {"Io", "Serialization"}

\* the backend call and the `?` / `if removed` that follows it
YamlCall(t) ==
    /\ pc[t] = "idle"
    /\ reopened = None
    /\ version < MaxVersion
    /\ \E r \in YamlRequests :
          LET w == backend_call(r, Store)
          IN  /\ req' = [req EXCEPT ![t] = r]
              /\ nodes' = w.store.nodes
              /\ addresses' = w.store.addresses
              /\ version' = w.store.version
              /\ pre' = [pre EXCEPT ![t] = Some(Store)]
              /\ IF w.res \in {"Ok", "Ok(true)"}
                 THEN /\ pc' = [pc EXCEPT ![t] = "save"]
                      /\ result' = [result EXCEPT ![t] = "pending"]
                      /\ UNCHANGED clean
                 ELSE /\ pc' = [pc EXCEPT ![t] = "idle"]
                      /\ result' = [result EXCEPT ![t] = w.res]
                      /\ clean' = (clean /\ w.res = "Ok(false)")
    /\ UNCHANGED <<call, wlock, rwVars, disk, fd, doc, reopened,
                   serverVars, dialVars, configVars, roleVars, connectorVars, registryVars>>

\* a step of save fails: the `?` returns the error, the open file is dropped
Fail(t, e) ==
    /\ pc' = [pc EXCEPT ![t] = "idle"]
    /\ result' = [result EXCEPT ![t] = e]
    /\ fd' = [fd EXCEPT ![t] = "none"]
    /\ doc' = [doc EXCEPT ![t] = None]
    /\ clean' = FALSE
    /\ UNCHANGED <<storeVars, call, req, wlock, rwVars, disk, pre, reopened,
                   serverVars, dialVars, configVars, roleVars, connectorVars, registryVars>>

\* a step of save succeeds: d and f are the files and the descriptors after it
Step(t, then, d, f, text) ==
    /\ pc' = [pc EXCEPT ![t] = then]
    /\ disk' = d
    /\ fd' = f
    /\ doc' = [doc EXCEPT ![t] = text]
    /\ UNCHANGED <<storeVars, call, req, result, wlock, rwVars, pre, reopened,
                   clean, serverVars, dialVars, configVars, roleVars, connectorVars, registryVars>>

\* lines 363-366: get_all and serde_yaml::to_string
save_to_string(t) ==
    /\ pc[t] = "save"
    /\ \/ Step(t, "create", disk, fd, Some(to_string(SeqOf(get_all(Store)))))
       \/ Fail(t, "Serialization")

\* line 369: File::create makes the file or truncates the one that is there
save_create(t) ==
    /\ pc[t] = "create"
    /\ \/ Step(t, "write", [disk EXCEPT !.temp = Some(EmptyFile)],
               [fd EXCEPT ![t] = "temp"], doc[t])
       \/ Fail(t, "Io")

\* the files after thread t wrote half k of its text through its descriptor
write_half(t, k) ==
    IF fd[t] \in {"temp", "target"}
    THEN [disk EXCEPT ![fd[t]] = Some([Unwrap(@) EXCEPT ![k] = doc[t]])]
    ELSE disk

\* line 370: write_all, the first part of the text
save_write(t) ==
    /\ pc[t] = "write"
    /\ \/ Step(t, "write_rest", write_half(t, 1), fd, doc[t])
       \/ Fail(t, "Io")

\* line 370: write_all, the rest of the text
save_write_rest(t) ==
    /\ pc[t] = "write_rest"
    /\ \/ Step(t, "sync", write_half(t, 2), fd, doc[t])
       \/ Fail(t, "Io")

\* line 371: sync_all
save_sync(t) ==
    /\ pc[t] = "sync"
    /\ \/ Step(t, "rename", disk, fd, doc[t])
       \/ Fail(t, "Io")

\* the descriptors after the file at the temporary path took the target's
\* name: that file is now the target, the file it replaced has no name
renamed(t) ==
    [u \in Threads |->
        IF u = t THEN "none"
        ELSE IF fd[u] = "temp" THEN "target"
        ELSE IF fd[u] = "target" THEN "detached"
        ELSE fd[u]]

\* lines 372-375: drop(file), fs::rename and Ok(()); rename fails when there
\* is no file at the temporary path
save_rename(t) ==
    /\ pc[t] = "rename"
    /\ \/ /\ disk.temp # None
          /\ pc' = [pc EXCEPT ![t] = "idle"]
          /\ disk' = [target |-> disk.temp, temp |-> None]
          /\ fd' = renamed(t)
          /\ doc' = [doc EXCEPT ![t] = None]
          /\ result' = [result EXCEPT ![t] = Saved(req[t])]
          /\ UNCHANGED <<storeVars, call, req, wlock, rwVars, pre, reopened,
                         clean, serverVars, dialVars, configVars, roleVars, connectorVars, registryVars>>
       \/ Fail(t, "Io")

\* the process stops where it is; the files stay as they are
Crash ==
    /\ reopened = None
    /\ \E t \in Threads : pc[t] \notin {"idle", "crashed"}
    /\ pc' = [t \in Threads |-> "crashed"]
    /\ fd' = [t \in Threads |-> "none"]
    /\ clean' = FALSE
    /\ UNCHANGED <<storeVars, call, req, result, wlock, rwVars, disk, doc, pre,
                   reopened, serverVars, dialVars, configVars, roleVars, connectorVars, registryVars>>

\* a second store is constructed on the path while no call is running
Reopen ==
    /\ reopened = None
    /\ \A t \in Threads : pc[t] \in {"idle", "crashed"}
    /\ reopened' = Some(YamlNodeStore_new(disk))
    /\ UNCHANGED <<storeVars, call, threadVars, rwVars, disk, fd, doc, pre,
                   clean, serverVars, dialVars, configVars, roleVars, connectorVars, registryVars>>

YamlStep(t) ==
    \/ YamlCall(t)
    \/ save_to_string(t)
    \/ save_create(t)
    \/ save_write(t)
    \/ save_write_rest(t)
    \/ save_sync(t)
    \/ save_rename(t)

\* one caller
NextYaml ==
    \/ \E t \in {1} : YamlStep(t)
    \/ Crash
    \/ Reopen

SpecYaml == Init /\ [][NextYaml]_vars

\* two callers on the same store
YamlThreads == {t \in Threads : t <= 2}

NextYamlConc ==
    \/ \E t \in YamlThreads : YamlStep(t)
    \/ Crash
    \/ Reopen

SpecYamlConc == Init /\ [][NextYamlConc]_vars

\* C12: when every mutating call of the single caller returned success, a
\* store constructed on the same path is constructed successfully and its
\* get_all is the get_all of the original store, as a set of records.
C12_ReopenReproduces ==
    (reopened # None /\ clean) =>
        /\ Unwrap(reopened).res = "Ok"
        /\ get_all(Unwrap(reopened).store) = get_all(Store)

\* C13: at every moment the target path holds no file or a file that is the
\* whole text of one node list, never an empty or partly written file.
C13_TargetAbsentOrComplete ==
    disk.target = None \/ Complete(Unwrap(disk.target))

\* C14: a call that returned the error of a failed save left the records,
\* the address index and the version as they were before the call, and the
\* file on disk holds exactly those records.
C14_FailedSaveKeepsLastGood ==
    \A t \in Threads :
        (pc[t] = "idle" /\ result[t] \in SaveErrors) =>
            /\ Store = Unwrap(pre[t])
            /\ YamlNodeStore_new(disk).res = "Ok"
            /\ get_all(YamlNodeStore_new(disk).store) = get_all(Store)

(***************************************************************************)
(* Node and connect_with_dial (bindings/server.rs).  native is the list of *)
(* the calls made on the native handle and on the Node's cancellation      *)
(* token, in order; node is where the owner of the Node value is; the      *)
(* engine calls connect_with_dial from its own thread at any time.  The    *)
(* program has called init_runtime_handle at start-up.                     *)
(***************************************************************************)
\* owner calls that are not part of close or drop are made while the list
\* of native calls is shorter than this
MaxNativeCalls == 4
\* set_dial_func is called at most this many times
MaxHandles == 2
\* RAFT_NOCONNECTION (server.rs 379)
RAFT_NOCONNECTION == 16

Handles == CONNECT_INDEX..(CONNECT_INDEX + MaxHandles)

Called_(c, who) == [call |-> c, by |-> who]

Calls(c) == {i \in 1..Len(native) : native[i].call = c}

\* the state outside Node and the registries
outsideServer ==
    <<storeVars, call, threadVars, rwVars, yamlVars, dialVars, configVars, roleVars, connectorVars, registryVars>>

\* Node::new: dqlite_node_create succeeds, or fails and the pointer it left
\* is passed to dqlite_node_destroy before Err is returned
Node_new ==
    /\ node = "unborn"
    /\ \/ /\ native' = <<Called_("dqlite_node_create", "new")>>
          /\ node' = "live"
       \/ /\ native' = <<Called_("dqlite_node_create failed", "new"),
                         Called_("dqlite_node_destroy", "new")>>
          /\ node' = "failed"
    /\ UNCHANGED <<outsideServer, cancel_token, registry, conn>>

Owner(c, who) ==
    /\ node = "live"
    /\ Len(native) < MaxNativeCalls
    /\ native' = Append(native, Called_(c, who))
    /\ UNCHANGED <<outsideServer, node, cancel_token, registry, conn>>

\* Node::start
start == Owner("dqlite_node_start", "start")

\* Node::stop
stop == Owner("dqlite_node_stop", "stop")

\* set_dial_func: the next handle is entered in both registries; when the
\* native call refuses the function the handle is taken out again
set_dial_func ==
    /\ node = "live"
    /\ registry.index < CONNECT_INDEX + MaxHandles
    /\ \/ registry' = [index |-> registry.index + 1,
                       handles |-> registry.handles \cup {registry.index}]
       \/ registry' = [registry EXCEPT !.index = @ + 1]
    /\ UNCHANGED <<outsideServer, native, node, cancel_token, conn>>

\* self.cancel_token.cancel(): a dial in flight is overtaken by it
cancel(who, then) ==
    /\ node = "live"
    /\ (who = "close" => Len(native) < MaxNativeCalls)
    /\ cancel_token' = TRUE
    /\ native' = Append(native, Called_("cancel", who))
    /\ conn' = [conn EXCEPT !.overtaken = @ \/ conn.pc = "dialing"]
    /\ node' = then
    /\ UNCHANGED <<outsideServer, registry>>

\* Node::close line 300
close_cancel == cancel("close", "closing")

\* Node::close lines 302-310: dqlite_node_stop; the Node stays usable
close_stop ==
    /\ node = "closing"
    /\ native' = Append(native, Called_("dqlite_node_stop", "close"))
    /\ node' = "live"
    /\ UNCHANGED <<outsideServer, cancel_token, registry, conn>>

\* Drop for Node line 346
drop_cancel == cancel("drop", "dropping")

\* Drop for Node lines 348-352
drop_destroy ==
    /\ node = "dropping"
    /\ native' = Append(native, Called_("dqlite_node_destroy", "drop"))
    /\ node' = "dropped"
    /\ UNCHANGED <<outsideServer, cancel_token, registry, conn>>

\* a check of the token that never sees it cancelled
is_cancelled_never == FALSE

\* cancel_token.is_cancelled()
is_cancelled == cancel_token

Done(rc, written) ==
    /\ conn' = [conn EXCEPT !.pc = "done", !.rc = rc, !.fd_written = written]
    /\ UNCHANGED <<outsideServer, native, node, cancel_token, registry>>

\* the engine calls connect_with_dial(handle, address, fd)
connect_with_dial ==
    /\ conn.pc = "idle"
    /\ \E h \in Handles :
          conn' = [NoConnect EXCEPT !.pc = "lookup", !.handle = h,
                                    !.late = cancel_token]
    /\ UNCHANGED <<outsideServer, native, node, cancel_token, registry>>

\* lines 374-394: both registries are looked up under their locks
connect_lookup ==
    /\ conn.pc = "lookup"
    /\ IF conn.handle \in registry.handles
       THEN /\ conn' = [conn EXCEPT !.pc = "check"]
            /\ UNCHANGED <<outsideServer, native, node, cancel_token, registry>>
       ELSE Done(RAFT_NOCONNECTION, FALSE)

\* lines 401-408: the test of the token, then spawn_blocking(dial_fn)
connect_check ==
    /\ conn.pc = "check"
    /\ IF is_cancelled
       THEN Done(RAFT_NOCONNECTION, FALSE)
       ELSE /\ conn' = [conn EXCEPT !.pc = "dialing", !.dialled = TRUE]
            /\ UNCHANGED <<outsideServer, native, node, cancel_token, registry>>

\* lines 410-422: the dial function returned a connection: *fd is written
dial_ok == conn.pc = "dialing" /\ Done(0, TRUE)

\* lines 412, 424: the dial function returned an error
dial_err == conn.pc = "dialing" /\ Done(RAFT_NOCONNECTION, FALSE)

\* lines 416, 425: the 5-second timeout ran out first
dial_timeout == conn.pc = "dialing" /\ Done(RAFT_NOCONNECTION, FALSE)

\* the engine has the return code; it may call again
connect_return ==
    /\ conn.pc = "done"
    /\ conn' = NoConnect
    /\ UNCHANGED <<outsideServer, native, node, cancel_token, registry>>

NextServer ==
    \/ Node_new
    \/ start
    \/ stop
    \/ set_dial_func
    \/ close_cancel
    \/ close_stop
    \/ drop_cancel
    \/ drop_destroy
    \/ connect_with_dial
    \/ connect_lookup
    \/ connect_check
    \/ dial_ok
    \/ dial_err
    \/ dial_timeout
    \/ connect_return

SpecServer == Init /\ [][NextServer]_vars

\* C15: close cancels the token before it stops the node, and a
\* connect_with_dial call that began after the token was cancelled (by close
\* or by drop) returns 16, has not invoked the dial function and has not
\* written *fd.
C15_CancelThenStopAndLateCallsRefused ==
    /\ \A i \in Calls("dqlite_node_stop") :
          native[i].by = "close" =>
              \E j \in Calls("cancel") : j < i /\ native[j].by = "close"
    /\ (conn.pc = "done" /\ conn.late) =>
          /\ conn.rc = RAFT_NOCONNECTION
          /\ ~conn.dialled
          /\ ~conn.fd_written

\* a call on a registered handle that began after close had cancelled and
\* stopped has returned
C15_Witness ==
    /\ conn.pc = "done"
    /\ conn.late
    /\ conn.handle \in registry.handles
    /\ \E i \in Calls("dqlite_node_stop") : native[i].by = "close"

\* C16: a connect_with_dial call whose dial function was running when the
\* token was cancelled returns 16 and does not write *fd.
C16_InFlightDialObservesCancel ==
    (conn.pc = "done" /\ conn.overtaken) =>
        conn.rc = RAFT_NOCONNECTION /\ ~conn.fd_written

\* C17: the native handle is released at most once, it is released once the
\* Node is dropped or its creation failed, and a handle that was created
\* successfully is stopped before it is released.
C17_StoppedThenReleasedOnce ==
    /\ Cardinality(Calls("dqlite_node_destroy")) <= 1
    /\ node \in {"dropped", "failed"} => Cardinality(Calls("dqlite_node_destroy")) = 1
    /\ \A i \in Calls("dqlite_node_destroy") :
          native[1].call = "dqlite_node_create" =>
              \E j \in Calls("dqlite_node_stop") : j < i

(***************************************************************************)
(* dial (connector.rs 152-162).  connects lists the socket connects the    *)
(* call attempted: the kind of socket and what it was given.               *)
(***************************************************************************)
\* the SocketAddr that addr.parse() yields for a string it accepts
parse_socket_addr(s) ==
    LET a == ReadOctet(s, 1)
        b == ReadOctet(s, a + 1)
        c == ReadOctet(s, b + 1)
        d == ReadOctet(s, c + 1)
    IN  [ip |-> <<NumVal(s, 1, a), NumVal(s, a + 1, b), NumVal(s, b + 1, c),
                  NumVal(s, c + 1, d)>>,
         port |-> NumVal(s, d + 1, Len(s) + 1)]

\* dial that hands the whole address to UnixStream::connect
dial_route_whole_address(addr) ==
    IF starts_with(addr, "unix:") THEN [kind |-> "unix", to |-> addr]
    ELSE IF ParsesAsSocketAddr(addr)
    THEN [kind |-> "tcp", to |-> parse_socket_addr(addr)]
    ELSE [kind |-> "none", to |-> ""]

\* lines 153-158: the branch dial takes and what it connects to
dial_route(addr) ==
    IF starts_with(addr, "unix:")
    THEN [kind |-> "unix", to |-> SubSeq(addr, 6, Len(addr))]
    ELSE IF ParsesAsSocketAddr(addr)
    THEN [kind |-> "tcp", to |-> parse_socket_addr(addr)]
    ELSE [kind |-> "none", to |-> ""]

DialPrefixes == {"", "unix:", "unix", "/", "@"}

DialBodies ==
    {"", "127.0.0.1:9001", "/tmp/x.sock", "not-an-address", "10.0.0.256:80",
     "1.2.3.4:080", "1.2.3.4", "localhost:80", "0.0.0.0:0",
     "255.255.255.255:65535", "1.2.3.4:65536"}

DialAddrs == {p \o b : p \in DialPrefixes, b \in DialBodies}

outsideDial ==
    <<storeVars, call, threadVars, rwVars, yamlVars, serverVars, configVars, roleVars, connectorVars, registryVars>>

InitDial ==
    /\ StoreInit
    /\ RwInit
    /\ YamlInit
    /\ ServerInit
    /\ ConfigInit
    /\ RoleInit
    /\ ConnectorInit
    /\ RegistryInit
    /\ dialer \in {[NoDial EXCEPT !.pc = "start", !.addr = a] : a \in DialAddrs}

\* lines 153-158: the prefix test and, for the other addresses, the parse
dial ==
    /\ dialer.pc = "start"
    /\ LET r == dial_route(dialer.addr)
       IN  IF r.kind = "none"
           THEN dialer' = [dialer EXCEPT !.pc = "done", !.res = "Err"]
           ELSE dialer' = [dialer EXCEPT !.pc = r.kind, !.target = r.to]
    /\ UNCHANGED outsideDial

\* a connect is attempted; the system accepts or refuses it
connect(kind, res) ==
    /\ dialer.pc = kind
    /\ dialer' = [dialer EXCEPT
                      !.pc = "done",
                      !.connects = Append(@, [kind |-> kind, to |-> dialer.target]),
                      !.res = res]
    /\ UNCHANGED outsideDial

\* lines 155-156
unix_connect_ok == connect("unix", "Ok")

unix_connect_err == connect("unix", "Err")

\* lines 159-160
tcp_connect_ok == connect("tcp", "Ok")

tcp_connect_err == connect("tcp", "Err")

NextDial ==
    \/ dial
    \/ unix_connect_ok
    \/ unix_connect_err
    \/ tcp_connect_ok
    \/ tcp_connect_err

SpecDial == InitDial /\ [][NextDial]_vars

\* C18: a finished dial of an address starting with "unix:" made exactly one
\* connect, a Unix-domain connect to the rest of the string; a finished dial
\* of any other address that parses as IP:port made exactly one connect, a
\* TCP connect to the parsed address; a finished dial of any other address
\* made no connect and returned an error.
C18_DialRoutes ==
    dialer.pc = "done" =>
        IF starts_with(dialer.addr, "unix:")
        THEN /\ Len(dialer.connects) = 1
             /\ dialer.connects[1].kind = "unix"
             /\ "unix:" \o dialer.connects[1].to = dialer.addr
        ELSE IF ParsesAsSocketAddr(dialer.addr)
        THEN /\ Len(dialer.connects) = 1
             /\ dialer.connects[1].kind = "tcp"
             /\ dialer.connects[1].to = parse_socket_addr(dialer.addr)
        ELSE /\ dialer.connects = <<>>
             /\ dialer.res = "Err"

\* the dial of "unix:/tmp/x.sock" made a Unix-domain connect to "/tmp/x.sock"
C18_Witness ==
    /\ dialer.pc = "done"
    /\ dialer.addr = "unix:/tmp/x.sock"
    /\ dialer.connects = <<[kind |-> "unix", to |-> "/tmp/x.sock"]>>

(***************************************************************************)
(* Config (config.rs).  Durations are in milliseconds.  explicit records,  *)
(* for each option, the value the last setter call gave it, if any.        *)
(***************************************************************************)
\* Config::with_defaults
with_defaults(c, default_dial) ==
    [dial |-> IF c.dial = None THEN Some(default_dial) ELSE c.dial,
     dial_timeout |-> IF c.dial_timeout = 0 THEN 5000 ELSE c.dial_timeout,
     attempt_timeout |-> IF c.attempt_timeout = 0 THEN 15000 ELSE c.attempt_timeout,
     backoff_factor |-> IF c.backoff_factor = 0 THEN 100 ELSE c.backoff_factor,
     backoff_cap |-> IF c.backoff_cap = 0 THEN 1000 ELSE c.backoff_cap,
     retry_limit |-> IF c.retry_limit = None THEN Some(10) ELSE c.retry_limit,
     concurrent_leader_conns |->
         IF c.concurrent_leader_conns = 0 THEN 10 ELSE c.concurrent_leader_conns,
     permit_shared |-> c.permit_shared]

\* values given to the setters
DurationValues == {0, 250}

CountValues == {0, 3}

outsideConfig ==
    <<storeVars, call, threadVars, rwVars, yamlVars, serverVars, dialVars, roleVars, connectorVars, registryVars>>

\* a setter of the builder: self.<option> = v; self
Set(o, v) ==
    /\ finished = 0
    /\ config' = [config EXCEPT ![o] = v]
    /\ explicit' = [explicit EXCEPT ![o] = Some(v)]
    /\ UNCHANGED <<finished, outsideConfig>>

with_dial == Set("dial", Some("custom_dial"))

with_dial_timeout == \E d \in DurationValues : Set("dial_timeout", d)

with_attempt_timeout == \E d \in DurationValues : Set("attempt_timeout", d)

with_backoff_factor == \E d \in DurationValues : Set("backoff_factor", d)

with_backoff_cap == \E d \in DurationValues : Set("backoff_cap", d)

with_retry_limit == \E n \in CountValues : Set("retry_limit", Some(n))

with_concurrent_leader_conns ==
    \E n \in CountValues : Set("concurrent_leader_conns", n)

\* with_permit_shared: not an option with_defaults fills
with_permit_shared ==
    /\ finished = 0
    /\ \E b \in BOOLEAN : config' = [config EXCEPT !.permit_shared = b]
    /\ UNCHANGED <<explicit, finished, outsideConfig>>

\* with_defaults, applied once and then once more
ApplyDefaults ==
    /\ finished < 2
    /\ config' = with_defaults(config, "default_dial")
    /\ finished' = finished + 1
    /\ UNCHANGED <<explicit, outsideConfig>>

NextConfig ==
    \/ with_dial
    \/ with_dial_timeout
    \/ with_attempt_timeout
    \/ with_backoff_factor
    \/ with_backoff_cap
    \/ with_retry_limit
    \/ with_concurrent_leader_conns
    \/ with_permit_shared
    \/ ApplyDefaults

SpecConfig == Init /\ [][NextConfig]_vars

\* the defaults the statement lists
StatedDefaults ==
    [dial |-> Some("default_dial"), dial_timeout |-> 5000,
     attempt_timeout |-> 15000, backoff_factor |-> 100, backoff_cap |-> 1000,
     retry_limit |-> Some(10), concurrent_leader_conns |-> 10]

\* C19: after with_defaults every option a setter set holds the value the
\* setter gave it, zero included, every other option holds its default, and
\* with_defaults applied again changes nothing.
C19_ExplicitKeptDefaultsFilled ==
    finished >= 1 =>
        /\ \A o \in Options :
              config[o] = IF explicit[o] # None THEN Unwrap(explicit[o])
                          ELSE StatedDefaults[o]
        /\ with_defaults(config, "default_dial") = config

(***************************************************************************)
(* The three places that turn an integer into a NodeRole: NodeRole::new    *)
(* (store.rs 21-26), Deserialize for NodeRole (53-61) and the role column  *)
(* read by DatabaseNodeStore::get_all (464-469).                           *)
(***************************************************************************)
\* largest u8
U8_MAX == 255
\* the integers tried on the paths that read wider integers reach this far
\* below 0 and above U8_MAX
RoleInputMargin == 3

WideInputs == (0 - RoleInputMargin)..(U8_MAX + RoleInputMargin)

\* lines 464-469: the match on row.get::<_, i64>(2)
role_of_column(v) ==
    CASE v = 0 -> Some(VOTER)
      [] v = 1 -> Some(STAND_BY)
      [] v = 2 -> Some(SPARE)
      [] OTHER -> None

DecodeInputs ==
    {[NoDecode EXCEPT !.pc = "start", !.via = "new", !.input = v] : v \in 0..U8_MAX}
        \cup {[NoDecode EXCEPT !.pc = "start", !.via = p, !.input = v] :
                 p \in {"deserialize", "sql"}, v \in WideInputs}

InitRole ==
    /\ StoreInit
    /\ RwInit
    /\ YamlInit
    /\ ServerInit
    /\ DialInit
    /\ ConfigInit
    /\ decode \in DecodeInputs
    /\ ConnectorInit
    /\ RegistryInit

Decoded(via, r) ==
    /\ decode.pc = "start"
    /\ decode.via = via
    /\ decode' = [decode EXCEPT !.pc = "done", !.res = r]
    /\ UNCHANGED <<storeVars, call, threadVars, rwVars, yamlVars, serverVars,
                   dialVars, configVars, connectorVars, registryVars>>

decode_new == Decoded("new", NodeRole_new(decode.input))

decode_deserialize == Decoded("deserialize", NodeRole_deserialize(decode.input))

decode_column == Decoded("sql", role_of_column(decode.input))

NextRole ==
    \/ decode_new
    \/ decode_deserialize
    \/ decode_column

SpecRole == InitRole /\ [][NextRole]_vars

\* C20: on each of the three paths an integer decodes to a role exactly when
\* it is 0, 1 or 2, the role decoded is one of the three roles and its
\* value() is that integer, and every other integer is an error.
C20_RoleDecoding ==
    decode.pc = "done" =>
        /\ decode.res # None <=> decode.input \in {0, 1, 2}
        /\ decode.res # None =>
              /\ Unwrap(decode.res) \in Roles
              /\ value(Unwrap(decode.res)) = decode.input

\* 256, whose low eight bits are 0, was refused by the deserializer
C20_Witness ==
    /\ decode.pc = "done"
    /\ decode.via = "deserialize"
    /\ decode.input = U8_MAX + 1
    /\ decode.res = None

(***************************************************************************)
(* Connector::connect.  connector.rs declares Connector and LeaderTracker  *)
(* (166-178) and Config carries the retry policy (config.rs 5-14); the     *)
(* body of connect() is not among the sources, so its steps follow the     *)
(* algorithm of spec.md 4.2: candidates are the tracker's address and then *)
(* the store's members, each pass dials every candidate in turn, a backoff *)
(* wait separates two passes, retry_limit bounds the passes and the        *)
(* cancellation signal ends the call.  The call modelled is one that       *)
(* redials (the tracker's weak session is dead) and keeps one dial in      *)
(* flight at a time, which any concurrent_leader_conns >= 1 allows.        *)
(***************************************************************************)
\* the dial functions tried fail at most MaxFails calls before succeeding
MaxFails == 2
\* retry_limit is at most MaxRetry
MaxRetry == 3
\* a call without retry_limit is followed for MaxPasses passes
MaxPasses == 4

\* a dial function: Some(k) fails its first k calls and succeeds from then
\* on, None fails every call; calls is the number of calls made so far
dial_fails(d, calls) == IF d = None THEN TRUE ELSE calls <= Unwrap(d)

\* the orders in which get_all may list the records of a HashMap
Orders(S) ==
    {f \in [1..Cardinality(S) -> S] : \A x \in S : \E k \in DOMAIN f : f[k] = x}

\* step 2: the last-known leader first (if set), then every store member
candidate_list(tracker, members) ==
    (IF tracker = None THEN <<>> ELSE <<Unwrap(tracker)>>)
        \o [k \in 1..Len(members) |-> members[k].addr]

\* step 5: the wait doubles after each pass and never exceeds backoff_cap
backoff_capped(b, cap) == IF b > cap THEN cap ELSE b

ConnectorAddrs == {"127.0.0.1:9001", "unix:/tmp/x.sock"}

\* the member lists the store is filled with: member k has id k, and the
\* addresses are distinct
ConnectorMembers ==
    {ns \in UNION {[1..n -> {NodeInfo(i, a, VOTER) : i \in {1, 2}, a \in ConnectorAddrs}] :
                      n \in 0..2} :
        /\ \A k \in DOMAIN ns : ns[k].id = k
        /\ \A j, k \in DOMAIN ns : j # k => ns[j].addr # ns[k].addr}

\* backoff_factor and backoff_cap in milliseconds: the defaults of
\* with_defaults, and a pair whose second wait reaches the cap
BackoffPolicies == {<<100, 1000>>, <<250, 400>>}

outsideConnector ==
    <<storeVars, call, threadVars, rwVars, yamlVars, serverVars, dialVars, configVars,
      roleVars, registryVars>>

InitConnector ==
    /\ \E ns \in ConnectorMembers :
          LET s == insert_from(new, ns, 1)
          IN  /\ nodes = s.nodes
              /\ addresses = s.addresses
              /\ version = s.version
    /\ call = Idle
    /\ pc = [t \in Threads |-> "idle"]
    /\ req = [t \in Threads |-> NoRequest]
    /\ result = [t \in Threads |-> "none"]
    /\ wlock = [f \in Fields |-> 0]
    /\ RwInit
    /\ YamlInit
    /\ ServerInit
    /\ DialInit
    /\ ConfigInit
    /\ RoleInit
    /\ RegistryInit
    /\ lt \in {None, Some("127.0.0.1:9001")}
    /\ \E d \in {None} \cup {Some(k) : k \in 0..MaxFails},
          limit \in {None} \cup {Some(n) : n \in 0..MaxRetry},
          b \in BackoffPolicies :
          attempt = [NoAttempt EXCEPT !.pc = "start", !.dial_fails = d,
                                      !.retry_limit = limit, !.backoff = b[1],
                                      !.backoff_cap = b[2]]

Running == attempt.pc \notin {"idle", "done"}

Finish(res) == [attempt EXCEPT !.pc = "done", !.res = res]

\* mutant: a step is taken without looking at the cancellation signal
ConnectorStep_unchecked(at, next) ==
    /\ attempt.pc = at
    /\ attempt' = next
    /\ UNCHANGED <<lt, outsideConnector>>

\* a step of connect(), taken only while the signal has not fired
ConnectorStep(at, next) ==
    /\ attempt.pc = at
    /\ ~attempt.cancel
    /\ attempt' = next
    /\ UNCHANGED <<lt, outsideConnector>>

\* step 2: build the candidate list from the tracker and the store
connect_begin ==
    \E members \in Orders(get_all(Store)) :
        ConnectorStep("start",
            [attempt EXCEPT !.pc = "next_pass",
                            !.candidates = candidate_list(lt, members),
                            !.errors = [k \in 1..Len(candidate_list(lt, members)) |-> "none"]])

\* mutant: the limit is tested one pass late
limit_reached_late ==
    attempt.retry_limit # None /\ attempt.pass > Unwrap(attempt.retry_limit)

limit_reached ==
    attempt.retry_limit # None /\ attempt.pass >= Unwrap(attempt.retry_limit)

\* failure: every candidate failed on every pass up to the limit
retries_exhausted ==
    /\ limit_reached
    /\ ConnectorStep("next_pass", Finish("Exhausted"))

\* no backoff is applied before the very first attempt
first_pass ==
    /\ ~limit_reached
    /\ attempt.pass = 0
    /\ ConnectorStep("next_pass", [attempt EXCEPT !.pc = "pass", !.i = 1])

\* step 5: between two passes the connector starts a backoff wait ...
backoff_start ==
    /\ ~limit_reached
    /\ attempt.pass > 0
    /\ attempt.pass < MaxPasses
    /\ ConnectorStep("next_pass", [attempt EXCEPT !.pc = "backoff"])

\* ... and when the wait is over the next pass begins with a doubled backoff
backoff_elapsed ==
    ConnectorStep("backoff",
        [attempt EXCEPT !.pc = "pass", !.i = 1,
                        !.waits = Append(@, backoff_capped(attempt.backoff, attempt.backoff_cap)),
                        !.backoff = backoff_capped(2 * @, attempt.backoff_cap)])

\* step 3: the next candidate is dialled
dial_start ==
    /\ attempt.i <= Len(attempt.candidates)
    /\ ConnectorStep("pass",
           [attempt EXCEPT !.pc = "dialling",
                           !.log = Append(@, attempt.candidates[attempt.i])])

\* step 4: a connect error or the attempt timeout moves to the next candidate
dial_failed(e) ==
    /\ dial_fails(attempt.dial_fails, Len(attempt.log))
    /\ ConnectorStep("dialling",
           [attempt EXCEPT !.pc = "pass", !.errors[attempt.i] = e, !.i = @ + 1])

\* mutant: the tracker records the first candidate, not the one that answered
succeeded_addr_first(a) == a.candidates[1]

\* the address the tracker is updated to on a successful dial
succeeded_addr(a) == a.candidates[a.i]

\* step 6: wrap the connection in a Protocol and update the tracker
dial_succeeded ==
    /\ attempt.pc = "dialling"
    /\ ~attempt.cancel
    /\ ~dial_fails(attempt.dial_fails, Len(attempt.log))
    /\ attempt' = Finish("Protocol")
    /\ lt' = Some(succeeded_addr(attempt))
    /\ UNCHANGED outsideConnector

\* the pass is over once every candidate has been dialled
pass_end ==
    /\ attempt.i > Len(attempt.candidates)
    /\ ConnectorStep("pass", [attempt EXCEPT !.pc = "next_pass", !.pass = @ + 1])

\* the cancellation signal of the call fires
cancel_connect ==
    /\ Running
    /\ ~attempt.cancel
    /\ attempt' = [attempt EXCEPT !.cancel = TRUE]
    /\ UNCHANGED <<lt, outsideConnector>>

\* the signal is observed: an in-flight dial or wait is aborted, no further
\* candidate is tried and the call fails
connect_cancelled ==
    /\ Running
    /\ attempt.cancel
    /\ attempt' = Finish("Cancelled")
    /\ UNCHANGED <<lt, outsideConnector>>

ConnectSteps ==
    \/ connect_begin
    \/ retries_exhausted
    \/ first_pass
    \/ backoff_start
    \/ backoff_elapsed
    \/ dial_start
    \/ dial_failed("refused")
    \/ dial_failed("timed out")
    \/ dial_succeeded
    \/ pass_end
    \/ connect_cancelled

NextConnector ==
    \/ connect_begin
    \/ retries_exhausted
    \/ first_pass
    \/ backoff_start
    \/ backoff_elapsed
    \/ dial_start
    \/ dial_failed("refused")
    \/ dial_failed("timed out")
    \/ dial_succeeded
    \/ pass_end
    \/ cancel_connect
    \/ connect_cancelled

SpecConnector == InitConnector /\ [][NextConnector]_vars

\* the task running connect() is driven by the scheduler until it returns;
\* nothing obliges the owner to cancel
SpecConnectorFair == SpecConnector /\ WF_vars(ConnectSteps)

\* the dial function fails k calls and then succeeds, and retry_limit > k
RetryOutlastsFailures ==
    /\ attempt.dial_fails # None
    /\ attempt.retry_limit # None
    /\ Unwrap(attempt.retry_limit) > Unwrap(attempt.dial_fails)

\* connect() returned a session and the tracker holds the address dialled last
ReturnedSession ==
    /\ attempt.pc = "done"
    /\ attempt.res = "Protocol"
    /\ lt = Some(attempt.log[Len(attempt.log)])

\* C21 as stated: for a dial function that fails k times and then succeeds,
\* with retry_limit > k and no cancellation, connect() eventually returns a
\* Protocol session, and on return last_known_leader_addr is the address
\* whose dial succeeded.
C21_RetryEventuallySucceeds ==
    /\ (attempt.pc = "start" /\ RetryOutlastsFailures)
           ~> (attempt.cancel \/ ReturnedSession)
    /\ [](attempt.pc = "done" /\ attempt.res = "Protocol" => ReturnedSession)

\* C21 amended: the same, for a call that has a candidate to dial (the
\* tracker knows a leader or the store has a member).
C21_RetrySucceedsGivenCandidate ==
    /\ (attempt.pc = "start" /\ RetryOutlastsFailures
            /\ (lt # None \/ get_all(Store) # {}))
           ~> (attempt.cancel \/ ReturnedSession)
    /\ [](attempt.pc = "done" /\ attempt.res = "Protocol" => ReturnedSession)

\* both dials of the first pass failed, the third dial succeeded in the second
\* pass, and the tracker holds the address it reached
C21_Witness ==
    /\ ReturnedSession
    /\ ~attempt.cancel
    /\ attempt.dial_fails = Some(2)
    /\ attempt.retry_limit = Some(3)
    /\ attempt.candidates = <<"127.0.0.1:9001", "unix:/tmp/x.sock">>
    /\ attempt.log = <<"127.0.0.1:9001", "unix:/tmp/x.sock", "127.0.0.1:9001">>
    /\ attempt.pass = 1

\* the candidate list dialled in order, n times over
Passes(c, n) == [k \in 1..(n * Len(c)) |-> c[((k - 1) % Len(c)) + 1]]

\* the dial function always fails and retry_limit = n
AlwaysFailsWithLimit == attempt.dial_fails = None /\ attempt.retry_limit # None

ExhaustionSafety ==
    AlwaysFailsWithLimit =>
        LET n == Unwrap(attempt.retry_limit)
        IN  /\ attempt.res # "Protocol"
            /\ attempt.pass <= n
            /\ Len(attempt.log) <= n * Len(attempt.candidates)
            /\ attempt.pass = 0 => attempt.waits = <<>>
            /\ attempt.pc = "done" /\ ~attempt.cancel =>
                  /\ attempt.res = "Exhausted"
                  /\ attempt.pass = n
                  /\ attempt.log = Passes(attempt.candidates, n)
                  /\ Len(attempt.waits) = (IF n = 0 THEN 0 ELSE n - 1)

\* C22: with a dial function that always fails and retry_limit = n, connect()
\* makes exactly n full passes over the candidates (each dialled once per
\* pass, no backoff wait before the first pass) and then fails with the
\* exhausted-retries error; there is no pass n+1 and no session is returned.
C22_ExhaustsAfterLimitPasses ==
    /\ []ExhaustionSafety
    /\ (attempt.pc = "start" /\ AlwaysFailsWithLimit)
           ~> (attempt.cancel \/ (attempt.pc = "done" /\ attempt.res = "Exhausted"))

\* three passes over two candidates failed, with the two waits between them
C22_Witness ==
    /\ attempt.pc = "done"
    /\ attempt.res = "Exhausted"
    /\ ~attempt.cancel
    /\ attempt.dial_fails = None
    /\ attempt.retry_limit = Some(3)
    /\ attempt.candidates = <<"unix:/tmp/x.sock", "127.0.0.1:9001">>
    /\ Len(attempt.log) = 6
    /\ attempt.waits = <<250, 400>>
    /\ attempt.errors = <<"refused", "timed out">>

\* C23: once the cancellation signal of a connect() call has fired before any
\* candidate succeeded, no further dial attempt is started (nor any backoff
\* wait or pass), and connect() fails as cancelled, the remaining passes of the
\* retry budget unused.
C23_CancelStopsConnect ==
    /\ [][attempt.cancel =>
             /\ attempt'.log = attempt.log
             /\ attempt'.waits = attempt.waits
             /\ attempt'.pass = attempt.pass
             /\ lt' = lt]_vars
    /\ [](attempt.pc = "done" /\ attempt.cancel => attempt.res = "Cancelled")
    /\ attempt.cancel ~> (attempt.pc = "done" /\ attempt.res = "Cancelled")

\* cancelled during the first dial of a call that had three passes to make
C23_Witness ==
    /\ attempt.pc = "done"
    /\ attempt.res = "Cancelled"
    /\ attempt.cancel
    /\ attempt.dial_fails = None
    /\ attempt.retry_limit = Some(3)
    /\ Len(attempt.candidates) = 2
    /\ Len(attempt.log) = 1
    /\ attempt.pass = 0

\* the lock a call waits for at its next step, and whether it is refused
Blocked(t) ==
    \/ pc[t] = "lock_nodes" /\ ~can_write("nodes")
    \/ pc[t] = "lock_addresses" /\ ~can_write("addresses")
    \/ pc[t] = "lock_version" /\ ~can_write("version")
    \/ pc[t] \in {"rlock_nodes", "rlock_nodes_held"} /\ ~can_read("nodes")
    \/ pc[t] = "rlock_addresses" /\ ~can_read("addresses")

\* C24: no interleaving of concurrent backend operations deadlocks: while
\* calls are in progress (get_by_address beside set_all, upsert or remove
\* included) one of them is not waiting for a lock held by another, so every
\* call can still return.
C24_NoDeadlock ==
    (\E t \in RwThreads : pc[t] # "idle") =>
        \E t \in RwThreads : pc[t] # "idle" /\ ~Blocked(t)

(***************************************************************************)
(* Sequences of mutations of the backend (store.rs 228-277), long enough   *)
(* for a third call to meet what two earlier calls left (SpecIndex).       *)
(***************************************************************************)
\* calls are issued while version < MaxMutations
MaxMutations == 3

IndexAddrs == {"127.0.0.1:9001", "/tmp/x.sock"}

IndexNodes == {NodeInfo(i, a, VOTER) : i \in NodeIds, a \in IndexAddrs}

IndexLists == UNION {[1..n -> IndexNodes] : n \in 0..MaxLen}

index_set_all ==
    /\ version < MaxMutations
    /\ \E ns \in IndexLists : Mutate("set_all", ns, set_all(Store, ns))

index_upsert ==
    /\ version < MaxMutations
    /\ \E n \in IndexNodes : Mutate("upsert", n, upsert(Store, n))

index_remove ==
    /\ version < MaxMutations
    /\ \E id \in NodeIds : Mutate("remove", id, remove(Store, id))

NextIndex ==
    \/ index_set_all
    \/ index_upsert
    \/ index_remove

SpecIndex == Init /\ [][NextIndex]_vars

\* C25: after any sequence of set_all, upsert and remove calls the address
\* index agrees with the node map: get_by_address(a) returns a record exactly
\* when get_all holds a record with address a, and that record has address a
\* and is the one get_by_id returns for its id.
C25_IndexAgreesWithNodes ==
    \A a \in IndexAddrs :
        LET r == get_by_address(Store, a)
        IN  /\ r # None <=> \E n \in get_all(Store) : n.addr = a
            /\ r # None =>
                  /\ Unwrap(r).addr = a
                  /\ get_by_id(Store, Unwrap(r).id) = r

\* the records of the snapshot at the target path, when it is one whole text
FileRecords(d) ==
    IF d.target = None THEN None
    ELSE IF ~Complete(Unwrap(d.target)) THEN None
    ELSE IF from_str(Unwrap(Unwrap(d.target)[1])) = None THEN None
    ELSE LET ns == Unwrap(from_str(Unwrap(Unwrap(d.target)[1])))
         IN  Some({ns[k] : k \in DOMAIN ns})

\* C26: with concurrent callers on one file-backed store, once every mutating
\* call issued has returned successfully the snapshot file holds exactly the
\* records get_all returns: the save of an earlier mutation never replaces
\* the snapshot of a later one.
C26_SnapshotIsLatest ==
    (clean /\ version > 0 /\ \A t \in YamlThreads : pc[t] = "idle") =>
        FileRecords(disk) = Some(get_all(Store))

(***************************************************************************)
(* The handle tables of bindings/server.rs at lock granularity             *)
(* (SpecRegistry): Nodes are constructed and dropped, two threads call     *)
(* set_dial_func (441-481) and the engine calls connect_with_dial, of      *)
(* which the lookup under the two locks (374-394) is followed here.        *)
(***************************************************************************)
outsideRegistry ==
    <<storeVars, call, threadVars, rwVars, yamlVars, serverVars, dialVars, configVars,
      roleVars, connectorVars>>

\* mutant: a lock that is granted while another thread holds it
mutex_free_always(m) == TRUE

\* Mutex::lock returns once no thread holds the Mutex
mutex_free(m) == mutex[m] = None

\* CONNECT_INDEX.fetch_add(1, SeqCst): the counter after the call
fetch_add(i) == i + 1

\* Node::new: a Node with its own cancellation token
registry_Node_new(n) ==
    /\ owners[n] = "unborn"
    /\ owners' = [owners EXCEPT ![n] = "live"]
    /\ UNCHANGED <<outsideRegistry, connect_reg, context_reg, connect_index, mutex,
                   setter, lookup>>

\* Drop for Node (343-354): cancel and dqlite_node_destroy; no call on the
\* Node is in progress, and neither table is touched
registry_drop(n) ==
    /\ owners[n] = "live"
    /\ \A t \in Setters : setter[t].pc = "idle" \/ setter[t].node # n
    /\ owners' = [owners EXCEPT ![n] = "dropped"]
    /\ UNCHANGED <<outsideRegistry, connect_reg, context_reg, connect_index, mutex,
                   setter, lookup>>

\* a step of thread t's set_dial_func that leaves the tables alone
SetterStep(t, at, then) ==
    /\ setter[t].pc = at
    /\ setter' = [setter EXCEPT ![t].pc = then]

\* line 446: the handle is the counter's value, which moves on
set_fetch_add(t) ==
    /\ setter[t].pc = "idle"
    /\ connect_index < CONNECT_INDEX + MaxHandles
    /\ \E n \in RegNodes :
          /\ owners[n] = "live"
          /\ setter' = [setter EXCEPT ![t] = [pc |-> "lock_connect", node |-> n,
                                              handle |-> connect_index,
                                              res |-> "pending"]]
    /\ connect_index' = fetch_add(connect_index)
    /\ UNCHANGED <<outsideRegistry, owners, connect_reg, context_reg, mutex, lookup>>

\* X.lock().unwrap() by holder who
TakeMutex(who, m) ==
    /\ mutex_free(m)
    /\ mutex' = [mutex EXCEPT ![m] = Some(who)]

\* lines 448 and 467
set_lock_connect(t) ==
    /\ \/ SetterStep(t, "lock_connect", "lock_context")
       \/ SetterStep(t, "cleanup_lock_connect", "cleanup_lock_context")
    /\ TakeMutex(t, "CONNECT_REGISTRY")
    /\ UNCHANGED <<outsideRegistry, owners, connect_reg, context_reg, connect_index,
                   lookup>>

\* lines 449 and 468
set_lock_context(t) ==
    /\ \/ SetterStep(t, "lock_context", "insert_connect")
       \/ SetterStep(t, "cleanup_lock_context", "remove_connect")
    /\ TakeMutex(t, "CONTEXT_REGISTRY")
    /\ UNCHANGED <<outsideRegistry, owners, connect_reg, context_reg, connect_index,
                   lookup>>

\* line 451: connect_reg.insert(handle, Box::new(dial))
set_insert_connect(t) ==
    /\ SetterStep(t, "insert_connect", "insert_context")
    /\ connect_reg' = map_insert(connect_reg, setter[t].handle, setter[t].node)
    /\ UNCHANGED <<outsideRegistry, owners, context_reg, connect_index, mutex, lookup>>

\* line 452: context_reg.insert(handle, self.cancel_token.clone())
set_insert_context(t) ==
    /\ SetterStep(t, "insert_context", "drop_connect")
    /\ context_reg' = map_insert(context_reg, setter[t].handle, setter[t].node)
    /\ UNCHANGED <<outsideRegistry, owners, connect_reg, connect_index, mutex, lookup>>

\* line 454: drop(connect_reg)
set_drop_connect(t) ==
    /\ SetterStep(t, "drop_connect", "drop_context")
    /\ mutex' = [mutex EXCEPT !["CONNECT_REGISTRY"] = None]
    /\ UNCHANGED <<outsideRegistry, owners, connect_reg, context_reg, connect_index,
                   lookup>>

\* line 455: drop(context_reg)
set_drop_context(t) ==
    /\ SetterStep(t, "drop_context", "native")
    /\ mutex' = [mutex EXCEPT !["CONTEXT_REGISTRY"] = None]
    /\ UNCHANGED <<outsideRegistry, owners, connect_reg, context_reg, connect_index,
                   lookup>>

\* lines 458-464 and 480: dqlite_node_set_connect_func returned 0: Ok(())
set_native_ok(t) ==
    /\ setter[t].pc = "native"
    /\ setter' = [setter EXCEPT ![t].pc = "idle", ![t].res = "Ok"]
    /\ UNCHANGED <<outsideRegistry, owners, connect_reg, context_reg, connect_index,
                   mutex, lookup>>

\* lines 458-466: it returned a non-zero code: the cleanup begins
set_native_failed(t) ==
    /\ SetterStep(t, "native", "cleanup_lock_connect")
    /\ UNCHANGED <<outsideRegistry, owners, connect_reg, context_reg, connect_index,
                   mutex, lookup>>

\* mutant: the cleanup forgets the table of tokens
cleanup_context_kept(reg, h) == reg

\* line 470: context_reg.remove(&handle)
cleanup_context(reg, h) == map_remove(reg, h)

\* line 469: connect_reg.remove(&handle)
set_remove_connect(t) ==
    /\ SetterStep(t, "remove_connect", "remove_context")
    /\ connect_reg' = map_remove(connect_reg, setter[t].handle)
    /\ UNCHANGED <<outsideRegistry, owners, context_reg, connect_index, mutex, lookup>>

\* lines 470-477: context_reg.remove(&handle), then Err(Configuration) is
\* returned and both guards go out of scope
set_remove_context(t) ==
    /\ setter[t].pc = "remove_context"
    /\ context_reg' = cleanup_context(context_reg, setter[t].handle)
    /\ setter' = [setter EXCEPT ![t].pc = "idle", ![t].res = "Configuration"]
    /\ mutex' = [m \in Mutexes |-> None]
    /\ UNCHANGED <<outsideRegistry, owners, connect_reg, connect_index, lookup>>

LookupHandles == CONNECT_INDEX..(CONNECT_INDEX + 1)

\* the engine calls connect_with_dial(handle, ..)
lookup_begin ==
    /\ lookup.pc = "idle"
    /\ \E h \in LookupHandles :
          lookup' = [NoLookup EXCEPT !.pc = "lock_connect", !.handle = h]
    /\ UNCHANGED <<outsideRegistry, owners, connect_reg, context_reg, connect_index,
                   mutex, setter>>

\* line 374
lookup_lock_connect ==
    /\ lookup.pc = "lock_connect"
    /\ TakeMutex(Engine, "CONNECT_REGISTRY")
    /\ lookup' = [lookup EXCEPT !.pc = "lock_context"]
    /\ UNCHANGED <<outsideRegistry, owners, connect_reg, context_reg, connect_index,
                   setter>>

\* line 375
lookup_lock_context ==
    /\ lookup.pc = "lock_context"
    /\ TakeMutex(Engine, "CONTEXT_REGISTRY")
    /\ lookup' = [lookup EXCEPT !.pc = "get"]
    /\ UNCHANGED <<outsideRegistry, owners, connect_reg, context_reg, connect_index,
                   setter>>

\* lines 377-394: both tables are asked for the handle; a miss in either
\* returns RAFT_NOCONNECTION; the guards are dropped on every path
lookup_get ==
    /\ lookup.pc = "get"
    /\ lookup' = [lookup EXCEPT
                     !.pc = "done",
                     !.dial_fn = map_get(connect_reg, lookup.handle),
                     !.token = map_get(context_reg, lookup.handle),
                     !.rc = IF map_get(connect_reg, lookup.handle) = None
                               \/ map_get(context_reg, lookup.handle) = None
                            THEN RAFT_NOCONNECTION ELSE 0]
    /\ mutex' = [m \in Mutexes |-> None]
    /\ UNCHANGED <<outsideRegistry, owners, connect_reg, context_reg, connect_index,
                   setter>>

\* the call goes on to the dial (SpecServer) and returns
lookup_return ==
    /\ lookup.pc = "done"
    /\ lookup' = NoLookup
    /\ UNCHANGED <<outsideRegistry, owners, connect_reg, context_reg, connect_index,
                   mutex, setter>>

NextRegistry ==
    \/ \E n \in RegNodes : registry_Node_new(n)
    \/ \E n \in RegNodes : registry_drop(n)
    \/ \E t \in Setters : set_fetch_add(t)
    \/ \E t \in Setters : set_lock_connect(t)
    \/ \E t \in Setters : set_lock_context(t)
    \/ \E t \in Setters : set_insert_connect(t)
    \/ \E t \in Setters : set_insert_context(t)
    \/ \E t \in Setters : set_drop_connect(t)
    \/ \E t \in Setters : set_drop_context(t)
    \/ \E t \in Setters : set_native_ok(t)
    \/ \E t \in Setters : set_native_failed(t)
    \/ \E t \in Setters : set_remove_connect(t)
    \/ \E t \in Setters : set_remove_context(t)
    \/ lookup_begin
    \/ lookup_lock_connect
    \/ lookup_lock_context
    \/ lookup_get
    \/ lookup_return

SpecRegistry == Init /\ [][NextRegistry]_vars

\* C27: the dial-function table and the cancellation-token table hold entries
\* only for live Nodes: once a Node is dropped neither table has an entry for
\* a handle that Node registered through set_dial_func.
C27_EntriesOnlyForLiveNodes ==
    /\ \A h \in DOMAIN connect_reg : owners[connect_reg[h]] = "live"
    /\ \A h \in DOMAIN context_reg : owners[context_reg[h]] = "live"

\* the entries of handle h are the same before and after a step
EntriesKept(h) ==
    /\ map_get(connect_reg', h) = map_get(connect_reg, h)
    /\ map_get(context_reg', h) = map_get(context_reg, h)

\* C28: a set_dial_func whose native registration returned a non-zero code
\* returns the Configuration error with no entry left for its handle in
\* either table, and no step of a set_dial_func call touches the entry of
\* any handle but its own: the tables are as they were before the call.
C28_FailedRegistrationLeavesTables ==
    /\ [](\A t \in Setters :
             (setter[t].pc = "idle" /\ setter[t].res = "Configuration") =>
                 /\ map_get(connect_reg, setter[t].handle) = None
                 /\ map_get(context_reg, setter[t].handle) = None)
    /\ [][\A t \in Setters :
             setter'[t] # setter[t] =>
                 \A h \in Handles \ {setter'[t].handle} : EntriesKept(h)]_vars

\* the second registration failed and was cleaned up; the entries of the
\* first are in place
C28_Witness ==
    /\ setter[2].pc = "idle"
    /\ setter[2].res = "Configuration"
    /\ setter[2].handle = CONNECT_INDEX + 1
    /\ setter[1].res = "Ok"
    /\ connect_reg = [h \in {CONNECT_INDEX} |-> 1]
    /\ context_reg = [h \in {CONNECT_INDEX} |-> 1]
    /\ connect_index = CONNECT_INDEX + 2

\* C29: under any interleaving of set_dial_func calls and connect_with_dial
\* calls every registration gets a handle no other registration has, so no
\* insert overwrites an entry, and when connect_with_dial inspects the tables
\* both hold the same handles: it finds the dial function of a handle exactly
\* when it finds its token.
C29_DistinctHandlesAndPairedTables ==
    /\ [](\A t \in Setters :
             /\ setter[t].res # "none" => setter[t].handle < connect_index
             /\ setter[t].pc = "insert_connect" =>
                   map_get(connect_reg, setter[t].handle) = None
             /\ setter[t].pc = "insert_context" =>
                   map_get(context_reg, setter[t].handle) = None
             /\ \A u \in Setters \ {t} :
                   (setter[t].pc # "idle" /\ setter[u].pc # "idle") =>
                       setter[t].handle # setter[u].handle)
    /\ [][\A t \in Setters :
             (setter[t].pc = "idle" /\ setter'[t].pc # "idle") =>
                 /\ setter'[t].handle >= connect_index
                 /\ setter'[t].handle < connect_index']_vars
    /\ [](lookup.pc = "get" => DOMAIN connect_reg = DOMAIN context_reg)
    /\ [](lookup.pc = "done" => (lookup.dial_fn = None <=> lookup.token = None))

\* the engine found both entries of handle 101 while the call that registered
\* it is on its way to the cleanup and another call holds handle 100
C29_Witness ==
    /\ lookup.pc = "done"
    /\ lookup.handle = CONNECT_INDEX + 1
    /\ lookup.dial_fn = Some(2)
    /\ lookup.token = Some(2)
    /\ setter[2].pc = "cleanup_lock_connect"
    /\ setter[2].handle = CONNECT_INDEX + 1
    /\ setter[1].pc = "lock_context"
    /\ setter[1].handle = CONNECT_INDEX

\* C30: every address NodeInfo validation accepts (unix:<path>, <ip>:<port>,
\* /<path>, @<name>) is accepted as a dial target: its dial makes a
\* Unix-domain or TCP connect attempt and does not end in the error of a
\* malformed address.
C30_ValidAddressesAreDialable ==
    (dialer.pc = "done" /\ validate(NodeInfo(1, dialer.addr, VOTER)) = "Ok") =>
        /\ Len(dialer.connects) = 1
        /\ dialer.connects[1].kind \in {"unix", "tcp"}

====
